---- MODULE Spec2Model ----
(***************************************************************************)
(* file-scraper: scraper dispatch, result aggregation and grading.        *)
(*                                                                         *)
(* Python values are represented as follows: strings are strings, None is *)
(* the string None, a dict with keys 0..n-1 is a function on 0..n-1, a    *)
(* list is a sequence, a set of tuples is a set of tuples.  An exception  *)
(* that leaves a method is the outcome string naming the exception.       *)
(***************************************************************************)
EXTENDS Integers, Sequences, FiniteSets, TLC

VARIABLES
    mimetype,       \* Scraper.mimetype
    version,        \* Scraper.version
    streams,        \* Scraper.streams: dict index -> stream dict
    grade,          \* value returned by the step, when it was a grade() call
    grader,         \* grader class that computed it
    supported,      \* iter_scrapers: the classes whose is_supported() is true
    it,             \* iter_scrapers: the generator's frame
    request,        \* iter_scrapers: the arguments of the call
    adapter,        \* one scraper object (a BaseScraper subclass instance)
    filename,       \* Scraper.filename
    detected,       \* what the detectors find in the file
    params,         \* Scraper._params: the mimetype and version the caller gave
    predefined_mimetype,    \* Scraper._predefined_mimetype
    predefined_version,     \* Scraper._predefined_version
    well_formed,    \* Scraper.well_formed
    info,           \* Scraper.info: one entry per detector and scraper run
    verdicts,       \* the well_formed of each scraper object run, in order
    scraped         \* scrape() has been called on this Scraper

graderVars == <<mimetype, version, streams, grade, grader>>
iterVars == <<supported, it, request>>
adapterVars == <<adapter>>
scraperVars == <<filename, detected, params, predefined_mimetype,
                 predefined_version, well_formed, info, verdicts, scraped>>

----------------------------------------------------------------------------
(* file_scraper.defaults                                                   *)

None == "None"
True == "True"
False == "False"
UNAP == "(:unap)"
UNAV == "(:unav)"
RECOMMENDED == "fi-dpres-recommended-file-format"
ACCEPTABLE == "fi-dpres-acceptable-file-format"
UNACCEPTABLE == "fi-dpres-unacceptable-file-format"
KeyError == "KeyError"

\* the step was no grade() call, or grade() used no grader
NotGraded == "not graded"

\* the variables of a component while another one is run
GraderIdle ==
    /\ mimetype = None
    /\ version = None
    /\ streams = << >>
    /\ grade = NotGraded
    /\ grader = NotGraded

ScraperIdle ==
    /\ filename = None
    /\ detected = [mimetype |-> None, version |-> None]
    /\ params = [mimetype |-> None, version |-> None]
    /\ predefined_mimetype = None
    /\ predefined_version = None
    /\ well_formed = None
    /\ info = <<>>
    /\ verdicts = <<>>
    /\ scraped = FALSE

----------------------------------------------------------------------------
(* graders.py: the grading tables                                          *)

MIMEGrader_formats ==
       "application/epub+zip" :> ("2.0.1" :> RECOMMENDED @@ "3.0.0" :> RECOMMENDED @@ "3.0.1" :> RECOMMENDED @@ "3.2" :> RECOMMENDED)
    @@ "application/vnd.oasis.opendocument.text" :> ("1.0" :> RECOMMENDED @@ "1.1" :> RECOMMENDED @@ "1.2" :> RECOMMENDED @@ "1.3" :> RECOMMENDED)
    @@ "application/vnd.oasis.opendocument.spreadsheet" :> ("1.0" :> RECOMMENDED @@ "1.1" :> RECOMMENDED @@ "1.2" :> RECOMMENDED @@ "1.3" :> RECOMMENDED)
    @@ "application/vnd.oasis.opendocument.presentation" :> ("1.0" :> RECOMMENDED @@ "1.1" :> RECOMMENDED @@ "1.2" :> RECOMMENDED @@ "1.3" :> RECOMMENDED)
    @@ "application/vnd.oasis.opendocument.graphics" :> ("1.0" :> RECOMMENDED @@ "1.1" :> RECOMMENDED @@ "1.2" :> RECOMMENDED @@ "1.3" :> RECOMMENDED)
    @@ "application/vnd.oasis.opendocument.formula" :> ("1.0" :> RECOMMENDED @@ "1.2" :> RECOMMENDED @@ "1.3" :> RECOMMENDED)
    @@ "application/pdf" :> ("A-1a" :> RECOMMENDED @@ "A-1b" :> RECOMMENDED @@ "A-2a" :> RECOMMENDED @@ "A-2b" :> RECOMMENDED @@ "A-2u" :> RECOMMENDED @@ "A-3a" :> RECOMMENDED @@ "A-3b" :> RECOMMENDED @@ "A-3u" :> RECOMMENDED @@ "1.2" :> ACCEPTABLE @@ "1.3" :> ACCEPTABLE @@ "1.4" :> ACCEPTABLE @@ "1.5" :> ACCEPTABLE @@ "1.6" :> ACCEPTABLE @@ "1.7" :> ACCEPTABLE)
    @@ "audio/x-aiff" :> (UNAP :> ACCEPTABLE @@ "1.3" :> RECOMMENDED)
    @@ "audio/x-wav" :> (UNAP :> RECOMMENDED @@ "2" :> RECOMMENDED)
    @@ "audio/flac" :> ("1.2.1" :> RECOMMENDED)
    @@ "audio/L8" :> (UNAP :> RECOMMENDED)
    @@ "audio/L16" :> (UNAP :> RECOMMENDED)
    @@ "audio/L20" :> (UNAP :> RECOMMENDED)
    @@ "audio/L24" :> (UNAP :> RECOMMENDED)
    @@ "audio/mp4" :> (UNAP :> RECOMMENDED)
    @@ "image/x-dpx" :> ("2.0" :> RECOMMENDED)
    @@ "video/x-ffv" :> ("3" :> RECOMMENDED)
    @@ "video/jpeg2000" :> (UNAP :> RECOMMENDED)
    @@ "video/mp4" :> (UNAP :> RECOMMENDED)
    @@ "image/tiff" :> ("1.3" :> RECOMMENDED @@ "1.4" :> RECOMMENDED @@ "1.5" :> RECOMMENDED @@ "6.0" :> RECOMMENDED @@ "1.0" :> RECOMMENDED)
    @@ "image/jpeg" :> ("1.00" :> RECOMMENDED @@ "1.01" :> RECOMMENDED @@ "1.02" :> RECOMMENDED @@ "2.0" :> RECOMMENDED @@ "2.1" :> RECOMMENDED @@ "2.2" :> RECOMMENDED @@ "2.2.1" :> RECOMMENDED @@ "2.3" :> RECOMMENDED @@ "2.3.1" :> RECOMMENDED @@ "2.3.2" :> RECOMMENDED)
    @@ "image/jp2" :> (UNAP :> RECOMMENDED)
    @@ "image/svg+xml" :> ("1.1" :> RECOMMENDED)
    @@ "image/png" :> ("1.2" :> RECOMMENDED)
    @@ "application/warc" :> ("1.0" :> RECOMMENDED)
    @@ "application/x-siard" :> ("2.0" :> RECOMMENDED @@ "2.1" :> RECOMMENDED)
    @@ "application/x-spss-por" :> (UNAP :> RECOMMENDED)
    @@ "application/matlab" :> ("7" :> RECOMMENDED @@ "7.3" :> RECOMMENDED)
    @@ "application/x-hdf5" :> ("1.1" :> RECOMMENDED)
    @@ "application/msword" :> ("97-2003" :> ACCEPTABLE)
    @@ "application/vnd.openxmlformats-officedocument.wordprocessingml.document" :> ("2007 onwards" :> ACCEPTABLE)
    @@ "application/vnd.ms-excel" :> ("8" :> ACCEPTABLE @@ "8X" :> ACCEPTABLE)
    @@ "application/vnd.openxmlformats-officedocument.spreadsheetml.sheet" :> ("2007 onwards" :> ACCEPTABLE)
    @@ "application/vnd.ms-powerpoint" :> ("97-2003" :> ACCEPTABLE)
    @@ "application/vnd.openxmlformats-officedocument.presentationml.presentation" :> ("2007 onwards" :> ACCEPTABLE)
    @@ "audio/mpeg" :> ("1" :> ACCEPTABLE @@ "2" :> ACCEPTABLE)
    @@ "audio/x-ms-wma" :> ("9" :> ACCEPTABLE)
    @@ "video/dv" :> (UNAP :> ACCEPTABLE)
    @@ "video/mpeg" :> ("1" :> ACCEPTABLE @@ "2" :> ACCEPTABLE)
    @@ "video/x-ms-wmv" :> ("9" :> ACCEPTABLE)
    @@ "application/postscript" :> ("3.0" :> ACCEPTABLE)
    @@ "image/gif" :> ("1987a" :> ACCEPTABLE @@ "1989a" :> ACCEPTABLE)
    @@ "video/avi" :> (UNAP :> RECOMMENDED)
    @@ "video/x-matroska" :> ("4" :> RECOMMENDED)
    @@ "video/MP2T" :> (UNAP :> RECOMMENDED)
    @@ "application/mxf" :> (UNAP :> RECOMMENDED)
    @@ "video/mj2" :> (UNAP :> RECOMMENDED)
    @@ "video/quicktime" :> (UNAP :> RECOMMENDED)
    @@ "video/x-ms-asf" :> (UNAP :> ACCEPTABLE)
    @@ "video/MP1S" :> (UNAP :> ACCEPTABLE)
    @@ "video/MP2P" :> (UNAP :> ACCEPTABLE)

TextGrader_formats ==
       "text/csv" :> (UNAP :> RECOMMENDED)
    @@ "application/xhtml+xml" :> ("1.0" :> RECOMMENDED @@ "1.1" :> RECOMMENDED @@ "5.0" :> RECOMMENDED)
    @@ "text/xml" :> ("1.0" :> RECOMMENDED @@ "1.1" :> RECOMMENDED)
    @@ "text/html" :> ("4.01" :> RECOMMENDED @@ "5.0" :> RECOMMENDED @@ "5.1" :> RECOMMENDED @@ "5.2" :> RECOMMENDED)
    @@ "text/plain" :> (UNAP :> RECOMMENDED)
    @@ "application/gml+xml" :> ("3.2.1" :> RECOMMENDED)
    @@ "application/vnd.google-earth.kml+xml" :> ("2.3" :> RECOMMENDED)

allowed_charsets == {"ISO-8859-15", "UTF-8", "UTF-16", "UTF-32"}

recommended_formats ==
       "video/avi" :> {<<"audio/L16", UNAP>>, <<"audio/L20", UNAP>>, <<"audio/L24", UNAP>>, <<"audio/L8", UNAP>>}
    @@ "video/dv" :> {<<"audio/L16", UNAP>>, <<"audio/L20", UNAP>>, <<"audio/L24", UNAP>>, <<"audio/L8", UNAP>>}
    @@ "video/x-matroska" :> {<<"audio/L16", UNAP>>, <<"audio/L20", UNAP>>, <<"audio/L24", UNAP>>, <<"audio/L8", UNAP>>, <<"audio/flac", "1.2.1">>, <<"video/x-ffv", "3">>}
    @@ "video/MP2T" :> {<<"audio/mp4", UNAP>>, <<"video/mp4", UNAP>>}
    @@ "video/mp4" :> {<<"audio/mp4", UNAP>>, <<"video/mp4", UNAP>>}
    @@ "application/mxf" :> {<<"audio/L16", UNAP>>, <<"audio/L20", UNAP>>, <<"audio/L24", UNAP>>, <<"audio/L8", UNAP>>, <<"audio/mp4", UNAP>>, <<"video/jpeg2000", UNAP>>, <<"video/mp4", UNAP>>}
    @@ "video/mj2" :> {<<"audio/L16", UNAP>>, <<"audio/L20", UNAP>>, <<"audio/L24", UNAP>>, <<"audio/L8", UNAP>>, <<"video/jpeg2000", UNAP>>}
    @@ "video/quicktime" :> {<<"audio/L16", UNAP>>, <<"audio/L20", UNAP>>, <<"audio/L24", UNAP>>, <<"audio/L8", UNAP>>, <<"audio/mp4", UNAP>>, <<"video/jpeg2000", UNAP>>, <<"video/mp4", UNAP>>}

acceptable_formats ==
       "video/x-ms-asf" :> {<<"audio/x-ms-wma", "9">>, <<"video/x-ms-wmv", "9">>}
    @@ "video/avi" :> {<<"audio/mpeg", "1">>, <<"audio/mpeg", "2">>, <<"video/dv", UNAP>>, <<"video/mpeg", "2">>}
    @@ "video/dv" :> {<<"video/dv", UNAP>>}
    @@ "video/MP1S" :> {<<"audio/mpeg", "1">>, <<"audio/mpeg", "2">>, <<"video/mpeg", "2">>}
    @@ "video/MP2P" :> {<<"audio/mpeg", "1">>, <<"audio/mpeg", "2">>, <<"video/mpeg", "2">>}
    @@ "video/MP2T" :> {<<"video/mpeg", "2">>}
    @@ "video/mp4" :> {<<"audio/mpeg", "1">>, <<"audio/mpeg", "2">>, <<"video/mpeg", "2">>}
    @@ "application/mxf" :> {<<"audio/mpeg", "1">>, <<"audio/mpeg", "2">>, <<"video/dv", UNAP>>, <<"video/mpeg", "2">>}
    @@ "video/quicktime" :> {<<"audio/mpeg", "1">>, <<"audio/mpeg", "2">>, <<"video/dv", UNAP>>, <<"video/mpeg", "2">>}

----------------------------------------------------------------------------
(* graders.py: the three graders.  A grader is built on a scraper and     *)
(* reads its mimetype, version and streams; here the scraper is a record  *)
(* with these three fields.                                               *)

Grades == {RECOMMENDED, ACCEPTABLE, UNACCEPTABLE}

\* d.get(key, default) of a Python dict
dict_get(d, key, default) == IF key \in DOMAIN d THEN d[key] ELSE default

\* try: formats[mimetype][version]  except KeyError: UNACCEPTABLE
formats_lookup(formats, m, v) ==
    IF m \in DOMAIN formats
    THEN IF v \in DOMAIN formats[m] THEN formats[m][v] ELSE UNACCEPTABLE
    ELSE UNACCEPTABLE

MIMEGrader_is_supported(m) == m \in DOMAIN MIMEGrader_formats

\* variant: only the lookup of the mimetype is guarded
MIMEGrader_grade_unguarded_version(scraper) ==
    IF scraper.mimetype \in DOMAIN MIMEGrader_formats
    THEN IF scraper.version \in DOMAIN MIMEGrader_formats[scraper.mimetype]
         THEN MIMEGrader_formats[scraper.mimetype][scraper.version]
         ELSE KeyError
    ELSE UNACCEPTABLE

MIMEGrader_grade(scraper) ==
    formats_lookup(MIMEGrader_formats, scraper.mimetype, scraper.version)

TextGrader_is_supported(m) == m \in DOMAIN TextGrader_formats

\* variant: the charset of the last stream decides
TextGrader_grade_last_stream(scraper) ==
    LET looked_up == formats_lookup(TextGrader_formats, scraper.mimetype,
                                    scraper.version)
        ss == scraper.streams
        last == Cardinality(DOMAIN ss) - 1
    IN  IF \E i \in DOMAIN ss : "charset" \notin DOMAIN ss[i]
        THEN KeyError
        ELSE IF ss[last].charset \notin allowed_charsets
             THEN UNACCEPTABLE
             ELSE looked_up

\* stream['charset'] raises KeyError for a stream dict without that key, and
\* the loop visits every stream
TextGrader_grade(scraper) ==
    LET looked_up == formats_lookup(TextGrader_formats, scraper.mimetype,
                                    scraper.version)
        ss == scraper.streams
    IN  IF \E i \in DOMAIN ss : "charset" \notin DOMAIN ss[i]
        THEN KeyError
        ELSE IF \E i \in DOMAIN ss : ss[i].charset \notin allowed_charsets
             THEN UNACCEPTABLE
             ELSE looked_up

\* variant: the container grader looks into the recommended table only
ContainerGrader_is_supported_recommended_only(m) ==
    m \in DOMAIN recommended_formats

ContainerGrader_is_supported(m) ==
    \/ m \in DOMAIN recommended_formats
    \/ m \in DOMAIN acceptable_formats

\* the set of (mimetype, version) tuples of the streams whose index is not 0
contained_formats(ss) ==
    {<<ss[i].mimetype, ss[i].version>> : i \in DOMAIN ss \ {0}}

\* the grading rule on the contained formats and the two table rows
container_rule(contained, recommended, acceptable) ==
    IF Cardinality(contained \ recommended) = 0
    THEN RECOMMENDED
    ELSE IF Cardinality((contained \ recommended) \ acceptable) = 0
         THEN ACCEPTABLE
         ELSE UNACCEPTABLE

\* variant: the container stream counts as contained
ContainerGrader_grade_with_stream_0(scraper) ==
    LET ss == scraper.streams IN
    IF 0 \notin DOMAIN ss
    THEN KeyError
    ELSE container_rule(
             {<<ss[i].mimetype, ss[i].version>> : i \in DOMAIN ss},
             dict_get(recommended_formats, ss[0].mimetype, {}),
             dict_get(acceptable_formats, ss[0].mimetype, {}))

\* variant: the tables are subscripted instead of read with get()
ContainerGrader_grade_subscript(scraper) ==
    LET ss == scraper.streams IN
    IF 0 \notin DOMAIN ss
    THEN KeyError
    ELSE IF \/ ss[0].mimetype \notin DOMAIN recommended_formats
            \/ ss[0].mimetype \notin DOMAIN acceptable_formats
         THEN KeyError
         ELSE container_rule(contained_formats(ss),
                             recommended_formats[ss[0].mimetype],
                             acceptable_formats[ss[0].mimetype])

\* variant: the second test forgets to take the recommended formats out
ContainerGrader_grade_acceptable_only(scraper) ==
    LET ss == scraper.streams IN
    IF 0 \notin DOMAIN ss
    THEN KeyError
    ELSE LET contained == contained_formats(ss)
             recommended == dict_get(recommended_formats, ss[0].mimetype, {})
             acceptable == dict_get(acceptable_formats, ss[0].mimetype, {})
         IN  IF Cardinality(contained \ recommended) = 0
             THEN RECOMMENDED
             ELSE IF Cardinality(contained \ acceptable) = 0
                  THEN ACCEPTABLE
                  ELSE UNACCEPTABLE

ContainerGrader_grade(scraper) ==
    LET ss == scraper.streams IN
    IF 0 \notin DOMAIN ss
    THEN KeyError
    ELSE LET container_mimetype == ss[0].mimetype
             contained == contained_formats(ss)
             recommended == dict_get(recommended_formats, container_mimetype, {})
             acceptable == dict_get(acceptable_formats, container_mimetype, {})
         IN  container_rule(contained, recommended, acceptable)

----------------------------------------------------------------------------
(* Inputs of the graders: the scrapers they are built on.                  *)

MaxStreams == 3

TableVersions ==
    UNION ({DOMAIN MIMEGrader_formats[m] : m \in DOMAIN MIMEGrader_formats}
           \cup {DOMAIN TextGrader_formats[m] : m \in DOMAIN TextGrader_formats})

ContainerMimetypes ==
    DOMAIN recommended_formats \cup DOMAIN acceptable_formats

TableMimetypes ==
    DOMAIN MIMEGrader_formats \cup DOMAIN TextGrader_formats
        \cup ContainerMimetypes

\* values no table knows
OtherMimetypes == {"application/octet-stream", UNAV, None}
OtherVersions == {"0.17", UNAV, None}

TextVersions ==
    UNION {DOMAIN TextGrader_formats[m] : m \in DOMAIN TextGrader_formats}

Charsets == allowed_charsets \cup {"ISO-8859-1", UNAV}

\* every (mimetype, version) tuple of the container tables, and two tuples
\* that are in none of them
TableFormats ==
    UNION ({recommended_formats[m] : m \in DOMAIN recommended_formats}
           \cup {acceptable_formats[m] : m \in DOMAIN acceptable_formats})
ContainedFormats == TableFormats \cup {<<"video/mpeg", "1">>, <<"audio/L16", UNAV>>}

\* a file that is not text, with one stream, which repeats the mimetype and version of the file
SingleStreamScrapers ==
    {[mimetype |-> m, version |-> v,
      streams |-> (0 :> [mimetype |-> m, version |-> v])] :
        m \in (TableMimetypes \cup OtherMimetypes) \ DOMAIN TextGrader_formats,
        v \in TableVersions \cup OtherVersions}

\* a text file: every stream has a charset
TextScrapers ==
    UNION {
      {[mimetype |-> m, version |-> v,
        streams |-> [i \in 0..(n-1) |->
                       [mimetype |-> m, version |-> v, charset |-> cs[i]]]] :
          m \in DOMAIN TextGrader_formats \cup {"application/octet-stream"},
          v \in TextVersions \cup {"0.17", None},
          cs \in [0..(n-1) -> Charsets]} : n \in 1..MaxStreams}

\* a container: stream 0 is the container, the others are what it contains
ContainerScrapers ==
    UNION {
      {[mimetype |-> m, version |-> v,
        streams |-> [i \in 0..(n-1) |->
                       IF i = 0 THEN [mimetype |-> m, version |-> v]
                       ELSE [mimetype |-> fs[i][1], version |-> fs[i][2]]]] :
          m \in ContainerMimetypes,
          v \in {UNAP, "4"},
          fs \in [1..(n-1) -> ContainedFormats]} : n \in 1..MaxStreams}

GraderInputs == SingleStreamScrapers \cup TextScrapers \cup ContainerScrapers

scraper_of_state ==
    [mimetype |-> mimetype, version |-> version, streams |-> streams]

----------------------------------------------------------------------------
(* is_supported: what the metadata classes and the scraper classes        *)
(* declare, and the support rule.  A metadata class is a record of its    *)
(* _supported dict (mimetype -> versions) and its _allow_versions.        *)

\* variant: only the listed versions are supported
GzipWarctoolsMeta_listed_versions ==
    [supported |-> ("application/gzip" :> {}), allow_versions |-> FALSE]

GzipWarctoolsMeta ==
    [supported |-> ("application/gzip" :> {}), allow_versions |-> TRUE]

WarcWarctoolsMeta ==
    [supported |-> ("application/warc" :> {}), allow_versions |-> TRUE]

ArcWarctoolsMeta ==
    [supported |-> ("application/x-internet-archive" :> {}),
     allow_versions |-> TRUE]

PngcheckMeta ==
    [supported |-> ("image/png" :> {}), allow_versions |-> TRUE]

\* ghostscript_scraper.py names the versions the scraper checks
GhostscriptMeta ==
    [supported |-> ("application/pdf" :>
                       {"1.7", "A-2a", "A-2b", "A-2u", "A-3a", "A-3b", "A-3u"}),
     allow_versions |-> TRUE]

VnuMeta ==
    [supported |-> ("text/html" :> {"5.0"}), allow_versions |-> FALSE]

OfficeMeta ==
    [supported |->
        ("application/vnd.oasis.opendocument.text" :> {"1.1"}
         @@ "application/msword" :> {"97-2003"}
         @@ "application/vnd.openxmlformats-officedocument.wordprocessingml.document"
                :> {"2007 onwards"}
         @@ "application/vnd.oasis.opendocument.presentation" :> {"1.1"}
         @@ "application/vnd.ms-powerpoint" :> {"97-2003"}
         @@ "application/vnd.openxmlformats-officedocument.presentationml.presentation"
                :> {"2007 onwards"}
         @@ "application/vnd.oasis.opendocument.spreadsheet" :> {"1.1"}
         @@ "application/vnd.ms-excel" :> {"8X"}
         @@ "application/vnd.openxmlformats-officedocument.spreadsheetml.sheet"
                :> {"2007 onwards"}
         @@ "application/vnd.oasis.opendocument.graphics" :> {"1.1"}
         @@ "application/vnd.oasis.opendocument.formula" :> {"1.0"}),
     allow_versions |-> TRUE]

\* _supported_metadata of the scraper classes whose metadata classes are
\* known
GzipWarctoolsScraper_supported_metadata == <<GzipWarctoolsMeta>>

WarcWarctoolsScraper_supported_metadata == <<WarcWarctoolsMeta>>

ArcWarctoolsScraper_supported_metadata == <<ArcWarctoolsMeta>>

PngcheckScraper_supported_metadata == <<PngcheckMeta>>

VnuScraper_supported_metadata == <<VnuMeta>>

OfficeScraper_supported_metadata == <<OfficeMeta>>

\* cls._supported_metadata
supported_metadata ==
    "GzipWarctoolsScraper" :> GzipWarctoolsScraper_supported_metadata
    @@ "WarcWarctoolsScraper" :> WarcWarctoolsScraper_supported_metadata
    @@ "ArcWarctoolsScraper" :> ArcWarctoolsScraper_supported_metadata
    @@ "PngcheckScraper" :> PngcheckScraper_supported_metadata
    @@ "VnuScraper" :> VnuScraper_supported_metadata
    @@ "OfficeScraper" :> OfficeScraper_supported_metadata

\* _only_wellformed of the scraper classes that declare it
GzipWarctoolsScraper_only_wellformed == TRUE

\* variant: the class also scrapes metadata without the check
WarcWarctoolsScraper_metadata_too == FALSE

WarcWarctoolsScraper_only_wellformed == TRUE

ArcWarctoolsScraper_only_wellformed == TRUE

GhostscriptScraper_only_wellformed == TRUE

PngcheckScraper_only_wellformed == TRUE

PsppScraper_only_wellformed == TRUE

DpxScraper_only_wellformed == TRUE

DbptkScraper_only_wellformed == TRUE

OfficeScraper_only_wellformed == TRUE

VnuScraper_only_wellformed == TRUE

\* cls._only_wellformed: False unless the class declares it
only_wellformed ==
    {c \in {"GzipWarctoolsScraper"} : GzipWarctoolsScraper_only_wellformed}
    \cup {c \in {"WarcWarctoolsScraper"} : WarcWarctoolsScraper_only_wellformed}
    \cup {c \in {"ArcWarctoolsScraper"} : ArcWarctoolsScraper_only_wellformed}
    \cup {c \in {"GhostscriptScraper"} : GhostscriptScraper_only_wellformed}
    \cup {c \in {"PngcheckScraper"} : PngcheckScraper_only_wellformed}
    \cup {c \in {"PsppScraper"} : PsppScraper_only_wellformed}
    \cup {c \in {"DpxScraper"} : DpxScraper_only_wellformed}
    \cup {c \in {"DbptkScraper"} : DbptkScraper_only_wellformed}
    \cup {c \in {"OfficeScraper"} : OfficeScraper_only_wellformed}
    \cup {c \in {"VnuScraper"} : VnuScraper_only_wellformed}

\* BaseMeta.is_supported(mimetype, version)
BaseMeta_is_supported(md, m, v) ==
    /\ m \in DOMAIN md.supported
    /\ \/ v \in md.supported[m]
       \/ md.allow_versions
       \/ v \in {None, UNAV, UNAP}

\* BaseScraper.is_supported(mimetype, version, check_wellformed, params);
\* for a class whose metadata classes are not known, req.md_answers says
\* whether one of them supports the mimetype and version
BaseScraper_is_supported(class, req) ==
    IF class \in only_wellformed /\ ~req.check_wellformed
    THEN FALSE
    ELSE IF class \in DOMAIN supported_metadata
         THEN \E k \in 1..Len(supported_metadata[class]) :
                 BaseMeta_is_supported(supported_metadata[class][k],
                                       req.mimetype, req.version)
         ELSE class \in req.md_answers

\* the params argument of is_supported: None, or a dict of which the
\* support checks read the keys only
NoneParams == [is_none |-> TRUE, keys |-> {}]
dict_params(keys) == [is_none |-> FALSE, keys |-> keys]

\* `if params is None: params = {}`, then the keys of the dict
params_keys(given) == IF given.is_none THEN {} ELSE given.keys

\* magic_model.py: the metadata class of XML files
XmlFileMagicMeta ==
    [supported |-> ("text/xml" :> {}), allow_versions |-> TRUE]

\* a variant that hands every request on to the inherited rule
XmlFileMagicMeta_is_supported_any_params(m, v, given) ==
    BaseMeta_is_supported(XmlFileMagicMeta, m, v)

XmlFileMagicMeta_is_supported(m, v, given) ==
    IF "schematron" \in params_keys(given) THEN FALSE
    ELSE BaseMeta_is_supported(XmlFileMagicMeta, m, v)

\* scrapers/lxml_encoding.py: a scraper of the earlier generation, which
\* declares its file types itself
XmlEncoding_supported ==
    [supported |-> ("text/xml" :> {"1.0"} @@ "text/html" :> {"5.0"}),
     allow_versions |-> FALSE]
XmlEncoding_only_wellformed == TRUE

\* is_supported as XmlEncoding inherits it
XmlEncoding_super_is_supported(m, v, validation) ==
    IF XmlEncoding_only_wellformed /\ ~validation THEN FALSE
    ELSE BaseMeta_is_supported(XmlEncoding_supported, m, v)

XmlEncoding_is_supported(m, v, validation, given) ==
    IF "schematron" \in params_keys(given) THEN FALSE
    ELSE XmlEncoding_super_is_supported(m, v, validation)

\* no call of iter_scrapers
NoRequest ==
    [mimetype |-> None, version |-> None, check_wellformed |-> TRUE,
     params |-> NoneParams, md_answers |-> {}]

----------------------------------------------------------------------------
(* dummy/dummy_scraper.py: the scrapers that do not look into the file.    *)
(* A scraper object is a record of the attributes the methods read and    *)
(* write; its class is the field `class`.                                  *)

\* the files of the file system
ExistingFiles ==
    {"tests/data/text_plain/invalid__empty.txt",
     "tests/data/image_png/valid_1.2.png"}

os_path_isfile(path) == path \in ExistingFiles

\* a scraper object after construction: nothing collected yet
new_scraper(class, fname, pre_mimetype, pre_version, check, given) ==
    [class |-> class, filename |-> fname,
     predefined_mimetype |-> pre_mimetype,
     predefined_version |-> pre_version,
     check_wellformed |-> check, params |-> given,
     messages |-> <<>>, errors |-> <<>>, streams |-> <<>>]

\* DummyMeta(): a stream whose mimetype and version are not available
DummyMeta == [class |-> "DummyMeta", mimetype |-> UNAV, version |-> UNAV]

\* the declaration of the metadata class of a stream; DummyMeta declares
\* nothing
metadata_class(md_class) ==
    CASE md_class = "GzipWarctoolsMeta" -> GzipWarctoolsMeta
      [] md_class = "WarcWarctoolsMeta" -> WarcWarctoolsMeta
      [] md_class = "ArcWarctoolsMeta" -> ArcWarctoolsMeta
      [] md_class = "PngcheckMeta" -> PngcheckMeta
      [] md_class = "GhostscriptMeta" -> GhostscriptMeta
      [] OTHER -> [supported |-> << >>, allow_versions |-> FALSE]

\* the mimetypes a metadata class declares
supported_mimetypes(md_class) == DOMAIN metadata_class(md_class).supported

\* BaseScraper._check_supported: the mimetype and version of the first
\* stream must be declared by its metadata class, unless tolerated
check_supported(a, allow_unav_mime, allow_unav_version, allow_unap_version) ==
    IF Len(a.streams) = 0
    THEN [a EXCEPT !.errors = Append(@, <<"MIME type not supported by this scraper.">>)]
    ELSE LET md == a.streams[1] IN
         IF md.mimetype = UNAV /\ allow_unav_mime
         THEN a
         ELSE IF md.mimetype \notin supported_mimetypes(md.class)
              THEN [a EXCEPT !.errors = Append(@,
                       <<"MIME type {} with version {} is not supported.",
                         md.mimetype, md.version>>)]
              ELSE IF \/ md.version = UNAV /\ allow_unav_version
                      \/ md.version = UNAP /\ allow_unap_version
                   THEN a
                   ELSE IF ~BaseMeta_is_supported(metadata_class(md.class),
                                                  md.mimetype, md.version)
                        THEN [a EXCEPT !.errors = Append(@,
                                 <<"MIME type {} with version {} is not supported.",
                                   md.mimetype, md.version>>)]
                        ELSE a

\* BaseScraper.well_formed: None when well-formedness is not checked,
\* otherwise True exactly when no error was collected
BaseScraper_well_formed(a) ==
    IF ~a.check_wellformed THEN None
    ELSE IF Len(a.errors) = 0 THEN True ELSE False

ScraperNotFound_scrape_file(a) ==
    [a EXCEPT !.errors = Append(@,
                  <<"Proper scraper was not found. The file was not analyzed.">>),
              !.streams = Append(@, DummyMeta)]

\* variant: the verdict of the base class
ScraperNotFound_well_formed_inherited(a) == BaseScraper_well_formed(a)

ScraperNotFound_well_formed(a) == False

\* variant: every filename that is given counts as a file that was found
FileExists_scrape_file_no_isfile(a) ==
    LET checked ==
            IF a.filename = None \/ a.filename = ""
            THEN [a EXCEPT !.errors = Append(@, <<"No filename given.">>)]
            ELSE [a EXCEPT !.messages =
                     Append(@, <<"File {} was found.", a.filename>>)]
    IN  [checked EXCEPT !.streams = Append(@, DummyMeta)]

FileExists_scrape_file(a) ==
    LET checked ==
            IF a.filename = None \/ a.filename = ""
            THEN [a EXCEPT !.errors = Append(@, <<"No filename given.">>)]
            ELSE IF os_path_isfile(a.filename)
                 THEN [a EXCEPT !.messages =
                          Append(@, <<"File {} was found.", a.filename>>)]
                 ELSE [a EXCEPT !.errors =
                          Append(@, <<"File {} does not exist.", a.filename>>)]
    IN  [checked EXCEPT !.streams = Append(@, DummyMeta)]

\* variant: the check of the file never decides the well-formedness
FileExists_well_formed_undetermined(a) == None

FileExists_well_formed(a) ==
    IF Len(a.errors) > 0 THEN False ELSE None

MIME_DICT ==
    "application/gzip" :> {"application/warc", "application/x-internet-archive"}

\* variant: only the versions are compared
MimeScraper_scrape_file_version_only(a) ==
    LET ver == dict_get(a.params, "version", UNAV)
        a1 == [a EXCEPT !.messages =
                  Append(@, <<"MIME type and file format version check">>)]
        a3 == IF a.predefined_version \notin {ver, None}
              THEN [a1 EXCEPT !.errors = Append(@,
                       <<"Predefined version '{}' and resulted version '{}' mismatch.",
                         a.predefined_version, ver>>)]
              ELSE a1
        a4 == [a3 EXCEPT !.streams = Append(@, DummyMeta)]
    IN  check_supported(a4, TRUE, TRUE, TRUE)

MimeScraper_scrape_file(a) ==
    LET mime == dict_get(a.params, "mimetype", UNAV)
        ver == dict_get(a.params, "version", UNAV)
        pre_list == dict_get(MIME_DICT, a.predefined_mimetype, {})
        a1 == [a EXCEPT !.messages =
                  Append(@, <<"MIME type and file format version check">>)]
        a2 == IF mime = UNAV
              THEN [a1 EXCEPT !.errors =
                       Append(@, <<"File format is not supported.">>)]
              ELSE IF mime # a.predefined_mimetype /\ mime \notin pre_list
                   THEN [a1 EXCEPT !.errors = Append(@,
                            <<"Predefined mimetype '{}' and resulted mimetype '{}' mismatch.",
                              a.predefined_mimetype, mime>>)]
                   ELSE a1
        a3 == IF a.predefined_version \notin {ver, None}
              THEN [a2 EXCEPT !.errors = Append(@,
                       <<"Predefined version '{}' and resulted version '{}' mismatch.",
                         a.predefined_version, ver>>)]
              ELSE a2
        a4 == [a3 EXCEPT !.streams = Append(@, DummyMeta)]
    IN  check_supported(a4, TRUE, TRUE, TRUE)

\* DetectedBinaryVersionScraper.scrape_file, which
\* DetectedMetaVersionScraper inherits.  The call of iterate_models() with
\* the detected mimetype and version is a statement of its own: what it
\* returns is stored nowhere, so the stream list stays as it is, and
\* _check_supported() looks at that list.
DetectedBinaryVersionScraper_scrape_file(a) ==
    LET a1 == [a EXCEPT !.messages =
                  Append(@, <<"Using detected file format version.">>)]
    IN  check_supported(a1, FALSE, TRUE, TRUE)

\* scraper.scrape_file() and scraper.well_formed, by the class of the object
scrape_file(a) ==
    CASE a.class = "ScraperNotFound" -> ScraperNotFound_scrape_file(a)
      [] a.class = "FileExists" -> FileExists_scrape_file(a)
      [] a.class = "MimeScraper" -> MimeScraper_scrape_file(a)
      [] a.class \in {"DetectedBinaryVersionScraper",
                      "DetectedMetaVersionScraper"} ->
             DetectedBinaryVersionScraper_scrape_file(a)

well_formed_of(a) ==
    CASE a.class = "ScraperNotFound" -> ScraperNotFound_well_formed(a)
      [] a.class = "FileExists" -> FileExists_well_formed(a)
      [] OTHER -> BaseScraper_well_formed(a)

AdapterIdle ==
    adapter = new_scraper("FileExists", None, None, None, TRUE,
                          [mimetype |-> UNAV, version |-> UNAV])

----------------------------------------------------------------------------
(* iterator.py: iter_scrapers.  The generator asks each class of its list *)
(* is_supported(mimetype, version, check_wellformed, params); the answers *)
(* for one request are the set `supported`.                                *)

ScraperNotFound == "ScraperNotFound"

scrapers ==
    <<"WandScraper", "GhostscriptScraper", "JHoveGifScraper",
      "JHoveHtmlScraper", "JHoveJpegScraper", "JHoveTiffScraper",
      "JHovePdfScraper", "JHoveWavScraper", "CsvScraper", "FFMpegScraper",
      "LxmlScraper", "MediainfoScraper", "OfficeScraper", "PilScraper",
      "PngcheckScraper", "PsppScraper", "SchematronScraper", "TextfileScraper",
      "VerapdfScraper", "VnuScraper", "XmllintScraper", "GzipWarctoolsScraper",
      "WarcWarctoolsScraper", "ArcWarctoolsScraper", "MagicScraper">>

ScraperClasses == {scrapers[k] : k \in 1..Len(scrapers)}

\* the frame of a generator that has not run yet
iter_start == [pc |-> "for", i |-> 1, scraper_found |-> FALSE, yielded |-> <<>>]

\* variant: the flag is never set
iter_for_body_flag_unset(sup, f) ==
    IF scrapers[f.i] \in sup
    THEN [f EXCEPT !.i = f.i + 1, !.yielded = Append(f.yielded, scrapers[f.i])]
    ELSE [f EXCEPT !.i = f.i + 1]

\* one pass of `for scraper in scrapers`
iter_for_body(sup, f) ==
    IF scrapers[f.i] \in sup
    THEN [f EXCEPT !.i = f.i + 1, !.scraper_found = TRUE,
                   !.yielded = Append(f.yielded, scrapers[f.i])]
    ELSE [f EXCEPT !.i = f.i + 1]

\* `if not scraper_found: yield ScraperNotFound`, then the generator ends
iter_after_for(f) ==
    IF ~f.scraper_found
    THEN [f EXCEPT !.pc = "done", !.yielded = Append(f.yielded, ScraperNotFound)]
    ELSE [f EXCEPT !.pc = "done"]

iter_step(sup, f) ==
    IF f.i <= Len(scrapers) THEN iter_for_body(sup, f) ELSE iter_after_for(f)

\* list(iter_scrapers(...)): the generator run to its end
RECURSIVE iter_run(_, _)
iter_run(sup, f) ==
    IF f.pc = "done" THEN f.yielded ELSE iter_run(sup, iter_step(sup, f))

iter_scrapers(sup) == iter_run(sup, iter_start)

MaxSupported == 2

\* the sets of at most k classes
RECURSIVE ClassSetsUpTo(_)
ClassSetsUpTo(k) ==
    IF k = 0 THEN {{}}
    ELSE LET P == ClassSetsUpTo(k - 1)
         IN  P \cup {S \cup {c} : S \in P, c \in ScraperClasses}

IterIdle ==
    /\ supported = {}
    /\ it = iter_start
    /\ request = NoRequest

InitIter ==
    /\ supported \in ClassSetsUpTo(MaxSupported)
    /\ it = iter_start
    /\ request = NoRequest
    /\ AdapterIdle
    /\ GraderIdle
    /\ ScraperIdle

IterForBody ==
    /\ it.pc = "for"
    /\ it.i <= Len(scrapers)
    /\ it' = iter_for_body(supported, it)
    /\ UNCHANGED <<supported, request>>
    /\ UNCHANGED <<graderVars, adapterVars, scraperVars>>

IterAfterFor ==
    /\ it.pc = "for"
    /\ it.i > Len(scrapers)
    /\ it' = iter_after_for(it)
    /\ UNCHANGED <<supported, request>>
    /\ UNCHANGED <<graderVars, adapterVars, scraperVars>>

NextIter == IterForBody \/ IterAfterFor

(* SpecSupport: iter_scrapers called with a mimetype, a version and a     *)
(* mode; the classes it yields are those whose is_supported() is true.    *)

MaxAnswers == 1

\* the scraper classes that are not in the list of iter_scrapers
UnlistedClasses == {"DpxScraper", "DbptkScraper"}

RequestMimetypes ==
    {"application/gzip", "application/warc", "application/x-internet-archive",
     "image/png", "text/html", "text/xml", "application/msword",
     "application/vnd.oasis.opendocument.formula", "foo"}

RequestVersions == {None, "", "foo", "5.0", "1.2", "1.0", UNAV, UNAP}

\* the classes whose metadata classes are not known, at most k of them
RECURSIVE AnswerSetsUpTo(_)
AnswerSetsUpTo(k) ==
    IF k = 0 THEN {{}}
    ELSE LET P == AnswerSetsUpTo(k - 1)
         IN  P \cup {S \cup {c} : S \in P,
                     c \in (ScraperClasses \cup UnlistedClasses)
                               \ DOMAIN supported_metadata}

RequestParams ==
    {dict_params({}), dict_params({"schematron"}), dict_params({"delimiter"}),
     dict_params({"schematron", "delimiter"})}

\* requests without params, and requests with params to which no class of
\* unknown metadata answers
Requests ==
    {[mimetype |-> m, version |-> v, check_wellformed |-> cw,
      params |-> NoneParams, md_answers |-> a] :
        m \in RequestMimetypes, v \in RequestVersions, cw \in BOOLEAN,
        a \in AnswerSetsUpTo(MaxAnswers)}
    \cup
    {[mimetype |-> m, version |-> v, check_wellformed |-> cw,
      params |-> given, md_answers |-> {}] :
        m \in RequestMimetypes, v \in RequestVersions, cw \in BOOLEAN,
        given \in RequestParams}

InitSupport ==
    /\ request \in Requests
    /\ supported = {c \in ScraperClasses : BaseScraper_is_supported(c, request)}
    /\ it = iter_start
    /\ AdapterIdle
    /\ GraderIdle
    /\ ScraperIdle

----------------------------------------------------------------------------
(* The Scraper facade: detect_filetype(), scrape() and grade().  A Scraper *)
(* is a record of its attributes.  The scraper classes of the list other  *)
(* than the dummy ones work on the file with external tools: what such a  *)
(* scraper object reports is an input of scrape().                         *)

\* Scraper.__init__
new_Scraper(fname, det, given) ==
    [filename |-> fname, detected |-> det, params |-> given,
     predefined_mimetype |-> given.mimetype,
     predefined_version |-> given.version,
     mimetype |-> None, version |-> None, streams |-> << >>,
     well_formed |-> None, info |-> <<>>, verdicts |-> <<>>]

\* variant: the verdict of the last scraper replaces the one so far
merge_well_formed_last_wins(so_far, verdict) ==
    IF verdict = None THEN so_far ELSE verdict

\* the effective well-formedness after one more verdict: a False stays,
\* a None changes nothing, otherwise the new verdict is taken
merge_well_formed(so_far, verdict) ==
    IF verdict = None THEN so_far
    ELSE IF so_far \in {None, True} THEN verdict ELSE so_far

\* Scraper._scrape_file, after scraper.scrape_file(): collect the info and
\* the verdict of a scraper object that has run
collect(S, a, verdict) ==
    [S EXCEPT !.info = Append(@, [class |-> a.class, messages |-> a.messages,
                                  errors |-> a.errors]),
              !.verdicts = Append(@, verdict),
              !.well_formed = merge_well_formed(S.well_formed, verdict)]

iter_detectors == <<"FidoDetector", "MagicDetector">>

RECURSIVE collect_detectors(_, _)
collect_detectors(S, k) ==
    IF k > Len(iter_detectors) THEN S
    ELSE collect_detectors(
             [S EXCEPT !.info = Append(@, [class |-> iter_detectors[k],
                                           messages |-> <<>>, errors |-> <<>>])],
             k + 1)

\* variant: what the detectors found replaces what the caller gave
identify_detected_wins(S) ==
    LET D == collect_detectors(S, 1) IN
    [D EXCEPT !.predefined_mimetype =
                  IF S.detected.mimetype # None THEN S.detected.mimetype
                  ELSE S.params.mimetype,
              !.predefined_version =
                  IF S.detected.version # None THEN S.detected.version
                  ELSE S.params.version]

\* the detectors fill what the caller left open
identify(S) ==
    LET D == collect_detectors(S, 1) IN
    [D EXCEPT !.predefined_mimetype =
                  IF S.params.mimetype # None THEN S.params.mimetype
                  ELSE S.detected.mimetype,
              !.predefined_version =
                  IF S.params.version # None THEN S.params.version
                  ELSE S.detected.version]

\* variant: the streams and the mimetype of an earlier scrape() are kept
Scraper_detect_filetype_keeps_streams(S) ==
    LET reset == [S EXCEPT !.well_formed = None,
                           !.info = <<>>, !.verdicts = <<>>,
                           !.predefined_mimetype = S.params.mimetype,
                           !.predefined_version = S.params.version]
        file_exists == FileExists_scrape_file(
                           new_scraper("FileExists", S.filename, None, None,
                                       TRUE, [mimetype |-> UNAV]))
        checked == collect(reset, file_exists,
                           FileExists_well_formed(file_exists))
    IN  IF checked.well_formed = False THEN checked ELSE identify(checked)

Scraper_detect_filetype(S) ==
    LET reset == [S EXCEPT !.mimetype = None, !.version = None,
                           !.streams = << >>, !.well_formed = None,
                           !.info = <<>>, !.verdicts = <<>>,
                           !.predefined_mimetype = S.params.mimetype,
                           !.predefined_version = S.params.version]
        file_exists == FileExists_scrape_file(
                           new_scraper("FileExists", S.filename, None, None,
                                       TRUE, [mimetype |-> UNAV]))
        checked == collect(reset, file_exists,
                           FileExists_well_formed(file_exists))
    IN  IF checked.well_formed = False THEN checked ELSE identify(checked)

\* a scraper object of a class of the list, after scrape_file()
external_scraper(class, fname, verdict) ==
    [new_scraper(class, fname, None, None, TRUE, [mimetype |-> UNAV])
        EXCEPT !.errors = IF verdict = False THEN <<(<<"error">>)>> ELSE <<>>]

\* run the scraper classes that iter_scrapers yields, in order
RECURSIVE run_scrapers(_, _, _, _, _)
run_scrapers(S, classes, k, check_wellformed, verdict_of) ==
    IF k > Len(classes) THEN S
    ELSE LET class == classes[k]
             not_found == ScraperNotFound_scrape_file(
                              new_scraper(class, S.filename, S.predefined_mimetype,
                                          S.predefined_version, check_wellformed,
                                          [mimetype |-> UNAV]))
             next == IF class = ScraperNotFound
                     THEN collect(S, not_found,
                                  ScraperNotFound_well_formed(not_found))
                     ELSE collect(S, external_scraper(class, S.filename,
                                                      verdict_of[class]),
                                  verdict_of[class])
         IN  run_scrapers(next, classes, k + 1, check_wellformed, verdict_of)

\* variant: the dummy streams are left out of the merged streams
dummy_result_no_streams ==
    [mimetype |-> UNAV, version |-> UNAV, streams |-> << >>]

\* the streams when only dummy streams were collected
dummy_result ==
    [mimetype |-> UNAV, version |-> UNAV,
     streams |-> (0 :> [mimetype |-> UNAV, version |-> UNAV])]

\* scrape(check_wellformed): sup is the set of classes that support the
\* file, verdict_of what each reports, result the merged streams
Scraper_scrape(S, check_wellformed, sup, verdict_of, result) ==
    LET identified == Scraper_detect_filetype(S) IN
    IF identified.well_formed = False
    THEN identified
    ELSE LET ran == run_scrapers(identified, iter_scrapers(sup), 1,
                                 check_wellformed, verdict_of)
             merged == [ran EXCEPT !.mimetype = result.mimetype,
                                   !.version = result.version,
                                   !.streams = result.streams]
             mime_check == MimeScraper_scrape_file(
                               new_scraper("MimeScraper", S.filename,
                                           merged.predefined_mimetype,
                                           merged.predefined_version, TRUE,
                                           [mimetype |-> merged.mimetype,
                                            version |-> merged.version]))
         IN  collect(merged, mime_check, BaseScraper_well_formed(mime_check))

\* variant: grade() goes to the tables without looking at the streams
Scraper_grade_unguarded(S) ==
    IF ContainerGrader_is_supported(S.mimetype)
    THEN [grade |-> ContainerGrader_grade(S), grader |-> "ContainerGrader"]
    ELSE IF TextGrader_is_supported(S.mimetype)
         THEN [grade |-> TextGrader_grade(S), grader |-> "TextGrader"]
         ELSE IF MIMEGrader_is_supported(S.mimetype)
              THEN [grade |-> MIMEGrader_grade(S), grader |-> "MIMEGrader"]
              ELSE [grade |-> UNACCEPTABLE, grader |-> NotGraded]

\* grade(): not available while there are no streams; otherwise the first
\* grader that supports the mimetype grades
Scraper_grade(S) ==
    IF DOMAIN S.streams = {}
    THEN [grade |-> UNAV, grader |-> NotGraded]
    ELSE IF ContainerGrader_is_supported(S.mimetype)
         THEN [grade |-> ContainerGrader_grade(S), grader |-> "ContainerGrader"]
         ELSE IF TextGrader_is_supported(S.mimetype)
              THEN [grade |-> TextGrader_grade(S), grader |-> "TextGrader"]
              ELSE IF MIMEGrader_is_supported(S.mimetype)
                   THEN [grade |-> MIMEGrader_grade(S), grader |-> "MIMEGrader"]
                   ELSE [grade |-> UNACCEPTABLE, grader |-> NotGraded]

(* Spec: one Scraper and the calls on it.                                  *)

MaxAdapters == 2

\* the classes of the list that may support the file of this Scraper
Dispatchable == {scrapers[k] : k \in 1..MaxAdapters}

Verdicts == {True, False, None}

ScraperFiles == {None, "missing_file"} \cup ExistingFiles

Detections ==
    {[mimetype |-> "image/png", version |-> "1.0"],
     [mimetype |-> "video/mp4", version |-> None],
     [mimetype |-> "application/pdf", version |-> "A-1a"],
     [mimetype |-> None, version |-> None]}

GivenParams ==
    {[mimetype |-> None, version |-> None],
     [mimetype |-> "video/mpeg", version |-> None],
     [mimetype |-> "video/mpeg", version |-> "1"],
     [mimetype |-> "application/gzip", version |-> None],
     [mimetype |-> "application/pdf", version |-> None]}

\* what the streams of the scrapers merge to: a file of every mimetype of
\* the tables, alone or, for a container, with one stream inside
stream_of(m, v) ==
    IF m \in DOMAIN TextGrader_formats
    THEN [mimetype |-> m, version |-> v, charset |-> "UTF-8"]
    ELSE [mimetype |-> m, version |-> v]

ScrapeResults ==
    {[mimetype |-> m, version |-> v, streams |-> (0 :> stream_of(m, v))] :
        m \in TableMimetypes \cup {"application/octet-stream"},
        v \in {UNAP, "1.0"}}
    \cup
    {[mimetype |-> m, version |-> v,
      streams |-> (0 :> stream_of(m, v)
                   @@ 1 :> [mimetype |-> f[1], version |-> f[2]])] :
        m \in ContainerMimetypes, v \in {UNAP},
        f \in {<<"audio/mp4", UNAP>>, <<"video/mpeg", "2">>, <<"video/mpeg", "1">>}}

Self ==
    [filename |-> filename, detected |-> detected, params |-> params,
     predefined_mimetype |-> predefined_mimetype,
     predefined_version |-> predefined_version,
     mimetype |-> mimetype, version |-> version, streams |-> streams,
     well_formed |-> well_formed, info |-> info, verdicts |-> verdicts]

Becomes(S) ==
    /\ filename' = S.filename
    /\ detected' = S.detected
    /\ params' = S.params
    /\ predefined_mimetype' = S.predefined_mimetype
    /\ predefined_version' = S.predefined_version
    /\ mimetype' = S.mimetype
    /\ version' = S.version
    /\ streams' = S.streams
    /\ well_formed' = S.well_formed
    /\ info' = S.info
    /\ verdicts' = S.verdicts

Init ==
    /\ \E f \in ScraperFiles, given \in GivenParams :
       \E d \in IF os_path_isfile(f) THEN Detections
                ELSE {[mimetype |-> None, version |-> None]} :
          LET S == new_Scraper(f, d, given) IN
          /\ filename = S.filename
          /\ detected = S.detected
          /\ params = S.params
          /\ predefined_mimetype = S.predefined_mimetype
          /\ predefined_version = S.predefined_version
          /\ mimetype = S.mimetype
          /\ version = S.version
          /\ streams = S.streams
          /\ well_formed = S.well_formed
          /\ info = S.info
          /\ verdicts = S.verdicts
    /\ scraped = FALSE
    /\ grade = NotGraded
    /\ grader = NotGraded
    /\ IterIdle
    /\ AdapterIdle

DetectFiletype ==
    /\ Becomes(Scraper_detect_filetype(Self))
    /\ grade' = NotGraded
    /\ grader' = NotGraded
    /\ UNCHANGED <<scraped, iterVars, adapterVars>>

\* scrape() starts with detect_filetype(), which discards what an earlier
\* call collected: one call shows every state a call can end in
Scrape ==
    /\ ~scraped
    /\ \E check_wellformed \in BOOLEAN, sup \in SUBSET Dispatchable :
       \E verdict_of \in [sup -> Verdicts] :
       \E result \in IF sup = {} THEN {dummy_result} ELSE ScrapeResults :
          Becomes(Scraper_scrape(Self, check_wellformed, sup, verdict_of, result))
    /\ scraped' = TRUE
    /\ grade' = NotGraded
    /\ grader' = NotGraded
    /\ UNCHANGED <<iterVars, adapterVars>>

Grade ==
    /\ grade' = Scraper_grade(Self).grade
    /\ grader' = Scraper_grade(Self).grader
    /\ UNCHANGED <<mimetype, version, streams, iterVars, adapterVars, scraperVars>>

Next == DetectFiletype \/ Scrape \/ Grade

----------------------------------------------------------------------------
(* The scrapers that run an external tool.  A text (the output of a tool, *)
(* a message) is a tuple of tokens: single characters where the code      *)
(* looks into the text, whole lines or phrases elsewhere.  What the tool   *)
(* answers (the Shell object) and what the libraries answer are inputs of  *)
(* scrape_file().  Besides the attributes of the Python object the record  *)
(* of such a scraper keeps what the call did: `outcome` (not called,       *)
(* returned) and `tool_runs`, the tools run so far.                        *)

\* os.path.getsize: the one empty file of ExistingFiles has size zero
os_path_getsize(path) ==
    IF path = "tests/data/text_plain/invalid__empty.txt" THEN 0 ELSE 2048

\* `pattern in text`
str_contains(text, pattern) ==
    \E k \in 0..(Len(text) - Len(pattern)) :
        \A j \in 1..Len(pattern) : text[k + j] = pattern[j]

new_tool_scraper(class, fname, pre_mimetype, pre_version, check, given) ==
    [class |-> class, filename |-> fname,
     predefined_mimetype |-> pre_mimetype,
     predefined_version |-> pre_version,
     check_wellformed |-> check, params |-> given,
     messages |-> <<>>, errors |-> <<>>, streams |-> <<>>,
     scraper |-> None, outcome |-> "not called", tool_runs |-> <<>>,
     attempts |-> <<>>, temp |-> {}, temp_made |-> <<>>,
     library |-> "not called"]

\* tempfile.mkdtemp, tempfile.NamedTemporaryFile: a temporary directory or
\* file comes to exist; `temp` holds those that exist, `temp_made` those
\* ever made
make_temp(a, name) ==
    [a EXCEPT !.temp = @ \cup {name}, !.temp_made = Append(@, name)]

\* shutil.rmtree, the end of a `with` block: the directory or file is gone
remove_temp(a, name) == [a EXCEPT !.temp = @ \ {name}]

\* scrape_file() comes back to its caller
returned(a) == [a EXCEPT !.outcome = "returned"]

\* a variant that records the skip as an error
skipped_as_error(a) ==
    returned([a EXCEPT !.errors = Append(@,
                 <<"Skipping scraper: Well-formed check not used.">>)])

\* the start of every scrape_file() of an only-wellformed class
skipped(a) ==
    returned([a EXCEPT !.messages = Append(@,
                 <<"Skipping scraper: Well-formed check not used.">>)])

\* a variant in which a file of size zero ends the call without a word
empty_file_silent(a) == returned(a)

\* what the Warctools scrapers do with a file of size zero
empty_file(a) == returned([a EXCEPT !.errors = Append(@, <<"Empty file.">>)])

\* warctools_model.py: the streams the three scrapers append
new_WarcWarctoolsMeta(line_version) ==
    [class |-> "WarcWarctoolsMeta", mimetype |-> "application/warc",
     version |-> line_version]

new_ArcWarctoolsMeta ==
    [class |-> "ArcWarctoolsMeta",
     mimetype |-> "application/x-internet-archive", version |-> UNAV]

\* (the metadata of a scraper without streams has no first element)
new_GzipWarctoolsMeta(metadata) ==
    [class |-> "GzipWarctoolsMeta",
     mimetype |-> IF Len(metadata) > 0 THEN metadata[1].mimetype
                  ELSE "IndexError",
     version |-> IF Len(metadata) > 0 THEN metadata[1].version
                 ELSE "IndexError"]

\* the lines of stderr that do not talk of an ignored line
warc_stderr_lines(stderr) ==
    SelectSeq(stderr, LAMBDA line : line # "ignored line")

\* WarcWarctoolsScraper.scrape_file; sh is the warcvalid run, gz what
\* reading the first line of the file gives: read |-> "gzip", "plain" or
\* "corrupted", and the version the line names
WarcWarctoolsScraper_scrape_file(a, sh, gz) ==
    IF ~a.check_wellformed /\ WarcWarctoolsScraper_only_wellformed
    THEN skipped(a)
    ELSE IF os_path_getsize(a.filename) = 0
    THEN empty_file(a)
    ELSE
    LET a1 == [a EXCEPT !.tool_runs = Append(@, "warcvalid")]
        a2 == IF sh.returncode # 0
              THEN [a1 EXCEPT !.errors = @ \o
                       << <<"Failed: returncode %s", sh.returncode>>,
                          warc_stderr_lines(sh.stderr) >>]
              ELSE a1
        a3 == [a2 EXCEPT !.messages = Append(@, sh.stdout)]
        md == new_WarcWarctoolsMeta(gz.version)
    IN  IF gz.read = "corrupted"
        THEN returned([a3 EXCEPT !.errors = Append(@, <<"Exception">>)])
        ELSE LET a4 == [a3 EXCEPT !.streams = Append(@, md)]
                 a5 == [a4 EXCEPT !.messages = Append(@,
                           <<"File was analyzed successfully.">>)]
                 a6 == [a5 EXCEPT !.streams = Append(@, md)]
             IN  returned(check_supported(a6, FALSE, FALSE, FALSE))

\* ArcWarctoolsScraper.scrape_file; sh is the arc2warc run
ArcWarctoolsScraper_scrape_file(a, sh) ==
    IF ~a.check_wellformed /\ ArcWarctoolsScraper_only_wellformed
    THEN skipped(a)
    ELSE IF os_path_getsize(a.filename) = 0
    THEN empty_file(a)
    ELSE
    LET a0 == make_temp(a, "scraper-warctools.")
        a1 == [a0 EXCEPT !.tool_runs = Append(@, "arc2warc")]
    IN  IF sh.returncode # 0
        THEN returned(remove_temp(
                 [a1 EXCEPT !.errors = @ \o
                     << <<"Failed: returncode %s", sh.returncode>>,
                        sh.stderr >>],
                 "scraper-warctools."))
        ELSE LET a2 == [a1 EXCEPT !.messages = @ \o
                           << <<"File was analyzed successfully.">>,
                              sh.stdout >>]
                 a3 == remove_temp(a2, "scraper-warctools.")
             IN  returned([a3 EXCEPT
                              !.streams = Append(@, new_ArcWarctoolsMeta)])

\* a variant that adds what the round collected to what is there, however
\* the round went
Gzip_merge_always_appends(a, inner) ==
    LET ok == BaseScraper_well_formed(inner) = True
        a1 == [a EXCEPT
                 !.scraper = inner.class,
                 !.attempts = Append(@, inner),
                 !.tool_runs = @ \o inner.tool_runs,
                 !.messages = @ \o inner.messages,
                 !.errors = @ \o inner.errors]
    IN  IF ok
        THEN [a1 EXCEPT !.streams =
                 Append(@, new_GzipWarctoolsMeta(inner.streams))]
        ELSE a1

\* one round of the loop of GzipWarctoolsScraper.scrape_file: `inner` is
\* the scraper of the round after its scrape_file()
Gzip_merge(a, inner) ==
    LET ok == BaseScraper_well_formed(inner) = True
        a1 == [a EXCEPT
                 !.scraper = inner.class,
                 !.attempts = Append(@, inner),
                 !.tool_runs = @ \o inner.tool_runs,
                 !.messages = IF Len(@) > 0 /\ ~ok
                              THEN @ \o inner.messages ELSE inner.messages,
                 !.errors = IF Len(@) > 0 /\ ~ok
                            THEN @ \o inner.errors ELSE inner.errors]
    IN  IF ok
        THEN [a1 EXCEPT !.streams =
                 Append(@, new_GzipWarctoolsMeta(inner.streams))]
        ELSE a1

\* a variant whose loop has no break: the ARC round always follows
GzipWarctoolsScraper_scrape_file_no_break(a, sh_warc, gz, sh_arc) ==
    IF ~a.check_wellformed /\ GzipWarctoolsScraper_only_wellformed
    THEN skipped(a)
    ELSE
    LET warc == WarcWarctoolsScraper_scrape_file(
                    new_tool_scraper("WarcWarctoolsScraper", a.filename,
                                     None, None, TRUE, None), sh_warc, gz)
        arc == ArcWarctoolsScraper_scrape_file(
                   new_tool_scraper("ArcWarctoolsScraper", a.filename,
                                    None, None, TRUE, None), sh_arc)
    IN  returned(Gzip_merge(Gzip_merge(a, warc), arc))

\* GzipWarctoolsScraper.scrape_file: the file as a WARC, then as an ARC
GzipWarctoolsScraper_scrape_file(a, sh_warc, gz, sh_arc) ==
    IF ~a.check_wellformed /\ GzipWarctoolsScraper_only_wellformed
    THEN skipped(a)
    ELSE
    LET warc == WarcWarctoolsScraper_scrape_file(
                    new_tool_scraper("WarcWarctoolsScraper", a.filename,
                                     None, None, TRUE, None), sh_warc, gz)
        arc == ArcWarctoolsScraper_scrape_file(
                   new_tool_scraper("ArcWarctoolsScraper", a.filename,
                                    None, None, TRUE, None), sh_arc)
        a1 == Gzip_merge(a, warc)
    IN  IF BaseScraper_well_formed(warc) = True
        THEN returned(a1)
        ELSE returned(Gzip_merge(a1, arc))

\* str.lower(), character by character
upper_to_lower ==
    "A" :> "a" @@ "B" :> "b" @@ "C" :> "c" @@ "D" :> "d" @@ "E" :> "e" @@
    "F" :> "f" @@ "G" :> "g" @@ "H" :> "h" @@ "I" :> "i" @@ "J" :> "j" @@
    "K" :> "k" @@ "L" :> "l" @@ "M" :> "m" @@ "N" :> "n" @@ "O" :> "o" @@
    "P" :> "p" @@ "Q" :> "q" @@ "R" :> "r" @@ "S" :> "s" @@ "T" :> "t" @@
    "U" :> "u" @@ "V" :> "v" @@ "W" :> "w" @@ "X" :> "x" @@ "Y" :> "y" @@
    "Z" :> "z"

str_lower(text) ==
    [k \in 1..Len(text) |->
        IF text[k] \in DOMAIN upper_to_lower THEN upper_to_lower[text[k]]
        ELSE text[k]]

\* the stream of a metadata class that keeps the defaults of BaseMeta
new_BaseMeta(md_class) ==
    [class |-> md_class, mimetype |-> UNAV, version |-> UNAV]

\* BaseScraper.iterate_models of a scraper with one metadata class: the
\* class is instantiated if it supports the predefined file type
BaseScraper_iterate_models(a, md_class) ==
    IF BaseMeta_is_supported(metadata_class(md_class),
                             a.predefined_mimetype, a.predefined_version)
    THEN << new_BaseMeta(md_class) >>
    ELSE << >>

\* GhostscriptScraper.scrape_file; sh is the gs run
GhostscriptScraper_scrape_file(a, sh) ==
    LET a1 == [a EXCEPT !.tool_runs = Append(@, "gs")]
        a2 == IF sh.returncode # 0
              THEN [a1 EXCEPT !.errors = Append(@,
                       <<"Ghostscript returned invalid return code: %s\n%s",
                         sh.returncode, sh.stderr>>)]
              ELSE a1
        a3 == [a2 EXCEPT !.messages = Append(@, sh.stdout)]
        a4 == IF Len(sh.stderr) > 0
              THEN [a3 EXCEPT !.errors = Append(@, sh.stderr)]
              ELSE [a3 EXCEPT !.messages =
                       Append(@, <<"Well-Formed and valid">>)]
        a5 == [a4 EXCEPT !.streams =
                  BaseScraper_iterate_models(a4, "GhostscriptMeta")]
    IN  returned(check_supported(a5, TRUE, TRUE, FALSE))

\* what GhostscriptScraper.well_formed looks for in the lowered messages
gs_error_marker == <<"*", "*", "*", "*", " ", "e", "r", "r", "o", "r">>
gs_warning_marker == <<"*", "*", "*", "*", " ", "w", "a", "r", "n", "i", "n", "g">>

\* a variant that looks for the markers without lowering the message
GhostscriptScraper_well_formed_case_sensitive(a) ==
    IF \E k \in 1..Len(a.messages) :
           \/ str_contains(a.messages[k], gs_error_marker)
           \/ str_contains(a.messages[k], gs_warning_marker)
    THEN False
    ELSE BaseScraper_well_formed(a)

GhostscriptScraper_well_formed(a) ==
    IF \E k \in 1..Len(a.messages) :
           \/ str_contains(str_lower(a.messages[k]), gs_error_marker)
           \/ str_contains(str_lower(a.messages[k]), gs_warning_marker)
    THEN False
    ELSE BaseScraper_well_formed(a)

\* PngcheckScraper.scrape_file; sh is the pngcheck run
PngcheckScraper_scrape_file(a, sh) ==
    LET a1 == [a EXCEPT !.tool_runs = Append(@, "pngcheck")]
        a2 == IF sh.returncode # 0
              THEN [a1 EXCEPT !.errors = Append(@,
                       <<"Pngcheck returned invalid return code: %s\n%s",
                         sh.returncode, sh.stderr>>)]
              ELSE a1
        a3 == [a2 EXCEPT !.messages = Append(@, sh.stdout)]
        a4 == [a3 EXCEPT !.streams =
                  BaseScraper_iterate_models(a3, "PngcheckMeta")]
    IN  returned(check_supported(a4, TRUE, TRUE, FALSE))

(* The metadata classes of Pspp, Dpx, Dbptk, Pil and Mediainfo are not     *)
(* under src.  Whether such a class supports the file type at hand (made)  *)
(* and whether _check_supported() accepts what its object reports          *)
(* (declared) are answers of that code, inputs of scrape_file().           *)
unlisted_models(md_class, ans) ==
    IF ans.made THEN << new_BaseMeta(md_class) >> ELSE << >>

unlisted_check_supported(a, ans) ==
    IF Len(a.streams) = 0
    THEN [a EXCEPT !.errors = Append(@,
             <<"MIME type not supported by this scraper.">>)]
    ELSE IF ans.declared THEN a
    ELSE [a EXCEPT !.errors = Append(@,
             <<"MIME type {} with version {} is not supported.",
               a.streams[1].mimetype, a.streams[1].version>>)]

\* the try block of PsppScraper.scrape_file; launched is whether the Shell
\* could start pspp-convert (if not, reading its stderr raises OSError), sh
\* its run, converted whether converted.por exists afterwards
Pspp_try(a, launched, sh, converted) ==
    IF ~launched THEN [a EXCEPT !.outcome = "OSError"]
    ELSE
    LET a2 == [a EXCEPT !.tool_runs = Append(@, "pspp-convert")]
        a3 == IF Len(sh.stderr) > 0
              THEN [a2 EXCEPT !.errors = Append(@, sh.stderr)]
              ELSE a2
        a4 == IF sh.returncode # 0
              THEN [a3 EXCEPT !.errors = Append(@,
                       <<"PSPP returned invalid return code: %s\n%s",
                         sh.returncode, sh.stderr>>)]
              ELSE a3
        a5 == [a4 EXCEPT !.messages = Append(@, sh.stdout)]
    IN  IF converted
        THEN [a5 EXCEPT !.messages = Append(@,
                 <<"File conversion was succesful.">>)]
        ELSE [a5 EXCEPT !.errors = Append(@, <<"File conversion failed.">>)]

\* the statements of the finally block of PsppScraper.scrape_file
Pspp_cleanup(a, ans) ==
    LET a1 == remove_temp(a, "temp_dir")
        a2 == [a1 EXCEPT !.streams = unlisted_models("PsppMeta", ans)]
    IN  unlisted_check_supported(a2, ans)

\* a variant in which the statements follow the try block instead of being
\* its finally block: an exception passes them by
Pspp_after_try(a, ans) ==
    IF a.outcome = "OSError" THEN a ELSE returned(Pspp_cleanup(a, ans))

\* the finally block: it runs whether or not the try block raised, and an
\* exception goes on to the caller after it
Pspp_finally(a, ans) ==
    IF a.outcome = "OSError" THEN Pspp_cleanup(a, ans)
    ELSE returned(Pspp_cleanup(a, ans))

\* PsppScraper.scrape_file; headers is the number of SPSS headers in the
\* first line of a file that has one
PsppScraper_scrape_file(a, headers, launched, sh, converted, ans) ==
    LET count == IF os_path_getsize(a.filename) = 0 THEN 0 ELSE headers
        a1 == IF count # 1
              THEN [a EXCEPT !.errors = Append(@,
                       <<"File is not SPSS Portable format.">>)]
              ELSE a
    IN  Pspp_finally(Pspp_try(make_temp(a1, "temp_dir"), launched, sh,
                              converted), ans)

\* str.splitlines() as a list of messages
splitlines(text) == [k \in 1..Len(text) |-> <<text[k]>>]

\* DpxScraper.scrape_file; sh is the dpxv run
DpxScraper_scrape_file(a, sh, ans) ==
    LET a1 == [a EXCEPT !.tool_runs = Append(@, "dpxv")]
        a2 == IF sh.returncode # 0
              THEN [a1 EXCEPT !.errors = Append(@,
                       <<"DPX returned invalid return code: %s\n%s",
                         sh.returncode, sh.stderr>>)]
              ELSE a1
        a3 == IF Len(sh.stderr) > 0
              THEN [a2 EXCEPT !.errors = @ \o splitlines(sh.stderr)]
              ELSE a2
        a4 == IF Len(sh.stdout) > 0
              THEN [a3 EXCEPT !.messages = @ \o splitlines(sh.stdout)]
              ELSE a3
        a5 == [a4 EXCEPT !.streams = unlisted_models("DpxMeta", ans)]
    IN  returned(unlisted_check_supported(a5, ans))

\* DbptkScraper.scrape_file; sh is the dbptk run, its stdout the report
DbptkScraper_scrape_file(a, sh, ans) ==
    LET a1 == [a EXCEPT !.tool_runs = Append(@, "dbptk")]
        a2 == IF /\ str_contains(sh.stdout,
                     <<"Validation process finished the SIARD is valid.">>)
                 /\ str_contains(sh.stdout, <<"Number of errors [0]">>)
              THEN [a1 EXCEPT !.messages = Append(@, sh.stdout)]
              ELSE [a1 EXCEPT !.errors = @ \o
                       << <<"Validator returned error.">>, sh.stdout,
                          sh.stderr >>]
        a3 == [a2 EXCEPT !.streams = unlisted_models("DbptkMeta", ans)]
    IN  returned(unlisted_check_supported(a3, ans))

\* BaseScraper._only_wellformed, which PilScraper does not override
PilScraper_only_wellformed == FALSE

\* PilScraper.scrape_file; pil is what PIL.Image.open gives: opened or
\* not, what reading pil.n_frames raises ("no" for nothing) and the number
\* of frames; ans.made says whether a metadata class of the scraper
\* supports the mimetype of the image.  The first reading of pil.n_frames
\* catches AttributeError and ValueError and its result is not used; the
\* second, getattr(pil, 'n_frames', 1), catches AttributeError only.
PilScraper_scrape_file(a, pil, ans) ==
    IF ~a.check_wellformed /\ PilScraper_only_wellformed
    THEN skipped(a)
    ELSE IF ~pil.opened
    THEN returned([a EXCEPT !.errors = @ \o
                      << <<"Error in analyzing file.">>, <<"Exception">> >>])
    ELSE
    LET a1 == [a EXCEPT !.messages = Append(@,
                  <<"The file was analyzed successfully.">>)]
        n_frames == IF pil.raises = "AttributeError" THEN 1 ELSE pil.n_frames
        a2 == [a1 EXCEPT !.streams =
                  IF ans.made
                  THEN [k \in 1..n_frames |-> new_BaseMeta("ImagePilMeta")]
                  ELSE << >>]
    IN  IF pil.raises = "ValueError"
        THEN [a1 EXCEPT !.outcome = "ValueError"]
        ELSE returned(unlisted_check_supported(a2, ans))

\* str.lower() on the track types pymediainfo reports
track_type_lower(s) ==
    CASE s = "General" -> "general"
      [] s = "Audio" -> "audio"
      [] s = "Video" -> "video"
      [] s = "Text" -> "text"
      [] s = "Image" -> "image"
      [] s = "Menu" -> "menu"
      [] s = "Other" -> "other"

\* MediainfoScraper._tracks_ok: the errors it records
tracks_errors(tracks) ==
    LET truncated == {k \in 1..Len(tracks) : tracks[k].istruncated = "Yes"}
        found == \E k \in 1..Len(tracks) :
                     track_type_lower(tracks[k].track_type)
                         \in {"audio", "video"}
    IN  [k \in 1..Cardinality(truncated) |-> <<"The file is truncated.">>]
        \o (IF ~found THEN << <<"No audio or video tracks found.">> >>
            ELSE << >>)
        \o (IF truncated # {} THEN << <<"File contains a truncated track.">> >>
            ELSE << >>)

tracks_ok(tracks) ==
    /\ \A k \in 1..Len(tracks) : tracks[k].istruncated # "Yes"
    /\ \E k \in 1..Len(tracks) :
           track_type_lower(tracks[k].track_type) \in {"audio", "video"}

\* the loop of MediainfoScraper.scrape_file over tracks k..Len(tracks);
\* a track says whether a metadata class makes a stream of it (streamed)
\* and the mimetype track_mimetype() finds for it
RECURSIVE mediainfo_tracks(_, _, _)
mediainfo_tracks(a, tracks, k) ==
    IF k > Len(tracks) THEN a
    ELSE
    LET track == tracks[k]
        track_mime == IF Len(a.streams) = 0 THEN a.predefined_mimetype
                      ELSE IF \/ a.predefined_mimetype = "audio/x-wav"
                              \/ tracks[1].mimetype = "audio/x-wav"
                           THEN "audio/x-wav"
                           ELSE track.mimetype
        track_type == track_type_lower(track.track_type)
        a1 == IF /\ track_type \in {"audio", "video"}
                 /\ track_mime \in {None, ""}
              THEN [a EXCEPT !.errors = Append(@,
                       <<"Could not identify {} stream mimetype",
                         track_type>>)]
              ELSE a
        a2 == IF track.streamed
              THEN [a1 EXCEPT !.streams =
                       Append(@, new_BaseMeta("MediainfoMeta"))]
              ELSE a1
    IN  mediainfo_tracks(a2, tracks, k + 1)

\* MediainfoScraper.scrape_file; parsed is whether MediaInfo.parse came
\* back, tracks what it gave
MediainfoScraper_scrape_file(a, parsed, tracks, ans) ==
    IF ~parsed
    THEN returned(unlisted_check_supported(
             [a EXCEPT !.errors = @ \o
                 << <<"Error in analyzing file.">>, <<"Exception">> >>],
             ans))
    ELSE IF ~tracks_ok(tracks)
    THEN returned([a EXCEPT !.errors = @ \o tracks_errors(tracks)])
    ELSE
    LET a1 == [a EXCEPT !.messages = Append(@,
                  <<"The file was analyzed successfully.">>)]
    IN  returned(unlisted_check_supported(
                     mediainfo_tracks(a1, tracks, 1), ans))

----------------------------------------------------------------------------
(* SpecAdapter: one scraper object of a dummy class, scrape_file() called  *)
(* on it up to MaxScrapeCalls times.                                       *)

MaxScrapeCalls == 2

Filenames == {None, "", "missing_file"} \cup ExistingFiles
PredefinedMimetypes ==
    {None, "video/mpeg", "application/gzip", "application/msword"}
PredefinedVersions == {None, "1"}
ParamDicts ==
    {[mimetype |-> m, version |-> v] :
        m \in {UNAV, "video/mpeg", "video/mp4", "application/warc"},
        v \in {UNAV, UNAP, "1"}}
    \cup {[mimetype |-> "video/mpeg"], [version |-> "1"]}
    \cup {[detected_version |-> "97-2003"],
          [detected_mimetype |-> "application/msword",
           detected_version |-> "97-2003"]}

DummyClasses ==
    {"ScraperNotFound", "FileExists", "MimeScraper",
     "DetectedBinaryVersionScraper", "DetectedMetaVersionScraper"}

InitAdapter ==
    /\ \E c \in DummyClasses, f \in Filenames, m \in PredefinedMimetypes,
          v \in PredefinedVersions, cw \in BOOLEAN, p \in ParamDicts :
          adapter = new_scraper(c, f, m, v, cw, p)
    /\ IterIdle
    /\ GraderIdle
    /\ ScraperIdle

ScraperNotFoundScrapeFile ==
    /\ adapter.class = "ScraperNotFound"
    /\ Len(adapter.streams) < MaxScrapeCalls
    /\ adapter' = ScraperNotFound_scrape_file(adapter)
    /\ UNCHANGED <<graderVars, iterVars, scraperVars>>

FileExistsScrapeFile ==
    /\ adapter.class = "FileExists"
    /\ Len(adapter.streams) < MaxScrapeCalls
    /\ adapter' = FileExists_scrape_file(adapter)
    /\ UNCHANGED <<graderVars, iterVars, scraperVars>>

MimeScraperScrapeFile ==
    /\ adapter.class = "MimeScraper"
    /\ Len(adapter.streams) < MaxScrapeCalls
    /\ adapter' = MimeScraper_scrape_file(adapter)
    /\ UNCHANGED <<graderVars, iterVars, scraperVars>>

\* the scrape_file() of the two classes that use the detected version adds
\* no stream: the calls are counted by the messages
DetectedVersionScrapeFile ==
    /\ adapter.class \in {"DetectedBinaryVersionScraper",
                          "DetectedMetaVersionScraper"}
    /\ Len(adapter.messages) < MaxScrapeCalls
    /\ adapter' = DetectedBinaryVersionScraper_scrape_file(adapter)
    /\ UNCHANGED <<graderVars, iterVars, scraperVars>>

NextAdapter ==
    \/ ScraperNotFoundScrapeFile
    \/ FileExistsScrapeFile
    \/ MimeScraperScrapeFile
    \/ DetectedVersionScrapeFile

----------------------------------------------------------------------------
(* SpecGrade: each grader applied to every scraper of GraderInputs.        *)

InitGrade ==
    /\ \E s \in GraderInputs :
          /\ mimetype = s.mimetype
          /\ version = s.version
          /\ streams = s.streams
    /\ grade = NotGraded
    /\ grader = NotGraded
    /\ IterIdle
    /\ AdapterIdle
    /\ ScraperIdle

GradeWithMIMEGrader ==
    /\ grade' = MIMEGrader_grade(scraper_of_state)
    /\ grader' = "MIMEGrader"
    /\ UNCHANGED <<mimetype, version, streams>>
    /\ UNCHANGED <<iterVars, adapterVars, scraperVars>>

GradeWithTextGrader ==
    /\ grade' = TextGrader_grade(scraper_of_state)
    /\ grader' = "TextGrader"
    /\ UNCHANGED <<mimetype, version, streams>>
    /\ UNCHANGED <<iterVars, adapterVars, scraperVars>>

GradeWithContainerGrader ==
    /\ grade' = ContainerGrader_grade(scraper_of_state)
    /\ grader' = "ContainerGrader"
    /\ UNCHANGED <<mimetype, version, streams>>
    /\ UNCHANGED <<iterVars, adapterVars, scraperVars>>

NextGrade ==
    \/ GradeWithMIMEGrader
    \/ GradeWithTextGrader
    \/ GradeWithContainerGrader

----------------------------------------------------------------------------
(* SpecTool: one scraper object of a class that runs a tool, on a file     *)
(* that exists; scrape_file() is called once, the tool answering anything. *)

\* the runs of a tool: exit status, stdout and stderr
ShellTexts == {<< >>, <<"line">>, <<"ignored line", "line">>}
ShellRuns ==
    {[returncode |-> rc, stdout |-> out, stderr |-> err] :
        rc \in {0, 1}, out \in {<< >>, <<"line">>}, err \in ShellTexts}

\* the runs of gs: its stdout character by character
GsStdouts ==
    {<< >>, <<"G", "P", "L", " ", "G", "h", "o", "s", "t", "s", "c", "r", "i", "p", "t">>, <<"*", "*", "*", "*", " ", "E", "r", "r", "o", "r", ":", " ", "x">>,
     <<" ", " ", "*", "*", "*", "*", " ", "W", "A", "R", "N", "I", "N", "G">>,
     <<"*", "*", "*", " ", "e", "r", "r", "o", "r">>, <<"*", "*", "*", "*", " ", "e", "R", "R", "o", "R">>}
GsRuns ==
    {[returncode |-> rc, stdout |-> out, stderr |-> err] :
        rc \in {0, 1}, out \in GsStdouts, err \in {<< >>, <<"E", "r", "r", "o", "r", ":", " ", "/", "u", "n", "d", "e", "f", "i", "n", "e", "d">>}}

\* what reading the first line of a WARC gives
GzipReads ==
    {[read |-> r, version |-> v] :
        r \in {"gzip", "plain"}, v \in {"1.0", "0.17", UNAV}}
    \cup {[read |-> "corrupted", version |-> UNAV]}

\* the reports of dbptk
DbptkRuns ==
    {[returncode |-> rc, stdout |-> out, stderr |-> err] :
        rc \in {0, 1},
        out \in {<< >>,
                 <<"Validation process finished the SIARD is valid.",
                   "Number of errors [0]">>,
                 <<"Validation process finished the SIARD is not valid.",
                   "Number of errors [2]">>,
                 <<"Number of errors [0]">>},
        err \in {<< >>, <<"line">>}}

\* the answers of the metadata classes that are not under src
MetaAnswers ==
    {[made |-> TRUE, declared |-> TRUE], [made |-> TRUE, declared |-> FALSE],
     [made |-> FALSE, declared |-> FALSE]}

\* what PIL.Image.open gives
MaxFrames == 2
PilOpens ==
    {[opened |-> FALSE, raises |-> "no", n_frames |-> 0]}
    \cup {[opened |-> TRUE, raises |-> "no", n_frames |-> n] :
              n \in 1..MaxFrames}
    \cup {[opened |-> TRUE, raises |-> e, n_frames |-> 0] :
              e \in {"AttributeError", "ValueError"}}

\* what the library call did, kept with the scraper
pil_library(pil) ==
    IF ~pil.opened THEN "open raised"
    ELSE IF pil.raises # "no" THEN "n_frames raised"
    ELSE "ok"

\* what MediaInfo.parse gives
MaxTracks == 2
Tracks ==
    [track_type : {"General", "Audio"}, istruncated : {"Yes", "No"},
     mimetype : {None, "audio/x-wav"}, streamed : BOOLEAN]
RECURSIVE TrackListsUpTo(_)
TrackListsUpTo(n) ==
    IF n = 0 THEN {<< >>}
    ELSE TrackListsUpTo(n - 1)
         \cup {Append(l, t) : l \in {x \in TrackListsUpTo(n - 1) :
                                        Len(x) = n - 1},
                               t \in Tracks}

ToolClasses ==
    {"GzipWarctoolsScraper", "WarcWarctoolsScraper", "ArcWarctoolsScraper",
     "GhostscriptScraper", "PngcheckScraper", "PsppScraper", "DpxScraper",
     "DbptkScraper", "PilScraper", "MediainfoScraper"}
ToolMimetypes == {None, "application/pdf", "image/png", "audio/x-wav"}
ToolVersions == {None, "1.7"}

InitTool ==
    /\ \E c \in ToolClasses, f \in ExistingFiles, m \in ToolMimetypes,
          v \in ToolVersions, cw \in BOOLEAN :
          adapter = new_tool_scraper(c, f, m, v, cw, None)
    /\ IterIdle
    /\ GraderIdle
    /\ ScraperIdle

GzipWarctoolsScrapeFile ==
    /\ adapter.class = "GzipWarctoolsScraper"
    /\ adapter.outcome = "not called"
    /\ \E sh_warc \in ShellRuns, gz \in GzipReads, sh_arc \in ShellRuns :
          adapter' = GzipWarctoolsScraper_scrape_file(adapter, sh_warc, gz,
                                                      sh_arc)
    /\ UNCHANGED <<graderVars, iterVars, scraperVars>>

WarcWarctoolsScrapeFile ==
    /\ adapter.class = "WarcWarctoolsScraper"
    /\ adapter.outcome = "not called"
    /\ \E sh \in ShellRuns, gz \in GzipReads :
          adapter' = WarcWarctoolsScraper_scrape_file(adapter, sh, gz)
    /\ UNCHANGED <<graderVars, iterVars, scraperVars>>

ArcWarctoolsScrapeFile ==
    /\ adapter.class = "ArcWarctoolsScraper"
    /\ adapter.outcome = "not called"
    /\ \E sh \in ShellRuns :
          adapter' = ArcWarctoolsScraper_scrape_file(adapter, sh)
    /\ UNCHANGED <<graderVars, iterVars, scraperVars>>

GhostscriptScrapeFile ==
    /\ adapter.class = "GhostscriptScraper"
    /\ adapter.outcome = "not called"
    /\ \E sh \in GsRuns :
          adapter' = GhostscriptScraper_scrape_file(adapter, sh)
    /\ UNCHANGED <<graderVars, iterVars, scraperVars>>

PngcheckScrapeFile ==
    /\ adapter.class = "PngcheckScraper"
    /\ adapter.outcome = "not called"
    /\ \E sh \in ShellRuns :
          adapter' = PngcheckScraper_scrape_file(adapter, sh)
    /\ UNCHANGED <<graderVars, iterVars, scraperVars>>

PsppScrapeFile ==
    /\ adapter.class = "PsppScraper"
    /\ adapter.outcome = "not called"
    /\ \E headers \in {0, 1, 2}, launched \in BOOLEAN, sh \in ShellRuns,
          converted \in BOOLEAN, ans \in MetaAnswers :
          adapter' = PsppScraper_scrape_file(adapter, headers, launched, sh,
                                             converted, ans)
    /\ UNCHANGED <<graderVars, iterVars, scraperVars>>

DpxScrapeFile ==
    /\ adapter.class = "DpxScraper"
    /\ adapter.outcome = "not called"
    /\ \E sh \in ShellRuns, ans \in MetaAnswers :
          adapter' = DpxScraper_scrape_file(adapter, sh, ans)
    /\ UNCHANGED <<graderVars, iterVars, scraperVars>>

DbptkScrapeFile ==
    /\ adapter.class = "DbptkScraper"
    /\ adapter.outcome = "not called"
    /\ \E sh \in DbptkRuns, ans \in MetaAnswers :
          adapter' = DbptkScraper_scrape_file(adapter, sh, ans)
    /\ UNCHANGED <<graderVars, iterVars, scraperVars>>

PilScrapeFile ==
    /\ adapter.class = "PilScraper"
    /\ adapter.outcome = "not called"
    /\ \E pil \in PilOpens, ans \in MetaAnswers :
          adapter' = [PilScraper_scrape_file(adapter, pil, ans)
                         EXCEPT !.library = pil_library(pil)]
    /\ UNCHANGED <<graderVars, iterVars, scraperVars>>

MediainfoScrapeFile ==
    /\ adapter.class = "MediainfoScraper"
    /\ adapter.outcome = "not called"
    /\ \E parsed \in BOOLEAN, tracks \in TrackListsUpTo(MaxTracks),
          ans \in MetaAnswers :
          adapter' = [MediainfoScraper_scrape_file(adapter, parsed, tracks,
                                                   ans)
                         EXCEPT !.library = IF parsed THEN "ok"
                                            ELSE "parse raised"]
    /\ UNCHANGED <<graderVars, iterVars, scraperVars>>

NextTool ==
    \/ GzipWarctoolsScrapeFile
    \/ WarcWarctoolsScrapeFile
    \/ ArcWarctoolsScrapeFile
    \/ GhostscriptScrapeFile
    \/ PngcheckScrapeFile
    \/ PsppScrapeFile
    \/ DpxScrapeFile
    \/ DbptkScrapeFile
    \/ PilScrapeFile
    \/ MediainfoScrapeFile

vars == <<mimetype, version, streams, grade, grader, supported, it, request,
          adapter,
          filename, detected, params, predefined_mimetype, predefined_version,
          well_formed, info, verdicts, scraped>>

Spec == Init /\ [][Next]_vars

SpecGrade == InitGrade /\ [][NextGrade]_vars

SpecIter == InitIter /\ [][NextIter]_vars

SpecAdapter == InitAdapter /\ [][NextAdapter]_vars

SpecSupport == InitSupport /\ [][NextIter]_vars

SpecTool == InitTool /\ [][NextTool]_vars

----------------------------------------------------------------------------
(* Properties of the graders, checked under SpecGrade.                     *)

\* the rows of the container tables for a mimetype, empty when it has none
RecommendedOf(m) ==
    IF m \in DOMAIN recommended_formats THEN recommended_formats[m] ELSE {}
AcceptableOf(m) ==
    IF m \in DOMAIN acceptable_formats THEN acceptable_formats[m] ELSE {}

\* C4: the container grader returns RECOMMENDED when the formats of the
\* streams other than stream 0 are all recommended for the mimetype of
\* stream 0, else ACCEPTABLE when they are all recommended or acceptable,
\* else UNACCEPTABLE.
C4_ContainerGradeIsSubsetRule ==
    (grader = "ContainerGrader" /\ 0 \in DOMAIN streams) =>
        LET C == {<<streams[i].mimetype, streams[i].version>> :
                      i \in {j \in DOMAIN streams : j # 0}}
            R == RecommendedOf(streams[0].mimetype)
            A == AcceptableOf(streams[0].mimetype)
        IN  /\ (C \subseteq R) => grade = RECOMMENDED
            /\ (~(C \subseteq R) /\ C \subseteq (R \cup A)) => grade = ACCEPTABLE
            /\ ~(C \subseteq (R \cup A)) => grade = UNACCEPTABLE

C4_Witness ==
    /\ grader = "ContainerGrader"
    /\ grade = ACCEPTABLE
    /\ streams[0].mimetype = "video/MP2T"
    /\ \E i, j \in DOMAIN streams :
          /\ <<streams[i].mimetype, streams[i].version>> = <<"audio/mp4", UNAP>>
          /\ <<streams[j].mimetype, streams[j].version>> = <<"video/mpeg", "2">>

\* C5: a supported container mimetype whose stream list holds the container
\* stream alone is graded RECOMMENDED, also when the mimetype is only in the
\* acceptable table.
C5_EmptyContainerIsRecommended ==
    (/\ grader = "ContainerGrader"
     /\ DOMAIN streams = {0}
     /\ ContainerGrader_is_supported(streams[0].mimetype))
        => grade = RECOMMENDED

C5_Witness ==
    /\ grader = "ContainerGrader"
    /\ DOMAIN streams = {0}
    /\ streams[0].mimetype = "video/x-ms-asf"
    /\ "video/x-ms-asf" \notin DOMAIN recommended_formats
    /\ grade = RECOMMENDED

\* C6: when the contained formats are a set of recommended formats of the
\* container with one of them taken out and one acceptable format of the
\* container put in, the grade is ACCEPTABLE, and the set before the exchange
\* is graded RECOMMENDED.
C6_ExchangeDegradesToAcceptable ==
    (grader = "ContainerGrader" /\ 0 \in DOMAIN streams) =>
        LET m == streams[0].mimetype
            C == contained_formats(streams)
        IN  \A r \in RecommendedOf(m) : \A a \in AcceptableOf(m) :
                (a \in C /\ r \notin C /\ (C \ {a}) \subseteq RecommendedOf(m))
                    => /\ grade = ACCEPTABLE
                       /\ ContainerGrader_grade(
                              [mimetype |-> m, version |-> version,
                               streams |-> [i \in DOMAIN streams |->
                                   IF i # 0
                                      /\ streams[i].mimetype = a[1]
                                      /\ streams[i].version = a[2]
                                   THEN [mimetype |-> r[1], version |-> r[2]]
                                   ELSE streams[i]]]) = RECOMMENDED

C6_Witness ==
    /\ grader = "ContainerGrader"
    /\ grade = ACCEPTABLE
    /\ streams[0].mimetype = "video/quicktime"
    /\ contained_formats(streams) = {<<"audio/L16", UNAP>>, <<"video/dv", UNAP>>}

\* C7: the MIME grader returns the table entry of (mimetype, version) when
\* the table has one and UNACCEPTABLE when it has none; it returns a grade
\* in every case.
C7_MIMEGradeIsTableLookup ==
    grader = "MIMEGrader" =>
        /\ grade \in {RECOMMENDED, ACCEPTABLE, UNACCEPTABLE}
        /\ (mimetype \in DOMAIN MIMEGrader_formats
            /\ version \in DOMAIN MIMEGrader_formats[mimetype])
               => grade = MIMEGrader_formats[mimetype][version]
        /\ mimetype \notin DOMAIN MIMEGrader_formats => grade = UNACCEPTABLE
        /\ (mimetype \in DOMAIN MIMEGrader_formats
            /\ version \notin DOMAIN MIMEGrader_formats[mimetype])
               => grade = UNACCEPTABLE

C7_Witness ==
    /\ grader = "MIMEGrader"
    /\ mimetype = "application/warc"
    /\ version = "0.17"
    /\ grade = UNACCEPTABLE

\* C8: the text grader returns UNACCEPTABLE when a stream has a charset
\* outside the four allowed ones, and the table entry (UNACCEPTABLE when
\* there is none) when every stream has an allowed charset.
C8_TextGradeChecksCharsets ==
    grader = "TextGrader" =>
        LET Allowed == {"ISO-8859-15", "UTF-8", "UTF-16", "UTF-32"}
            HasCharset(i) == "charset" \in DOMAIN streams[i]
            hit == /\ mimetype \in DOMAIN TextGrader_formats
                   /\ version \in DOMAIN TextGrader_formats[mimetype]
        IN  /\ (\E i \in DOMAIN streams :
                    HasCharset(i) /\ streams[i].charset \notin Allowed)
                  => grade = UNACCEPTABLE
            /\ (\A i \in DOMAIN streams :
                    HasCharset(i) /\ streams[i].charset \in Allowed)
                  => grade = IF hit THEN TextGrader_formats[mimetype][version]
                             ELSE UNACCEPTABLE

C8_Witness ==
    /\ grader = "TextGrader"
    /\ mimetype = "text/plain"
    /\ version = UNAP
    /\ \E i, j \in DOMAIN streams :
          streams[i].charset = "ISO-8859-1" /\ streams[j].charset = "UTF-8"
    /\ grade = UNACCEPTABLE

----------------------------------------------------------------------------
(* Properties of iter_scrapers, checked under SpecIter.                    *)

IsSupportedClass(c) == c \in supported

\* C2: the generator yields the classes of its list whose is_supported()
\* is true, each once and in list order; it yields ScraperNotFound, once
\* and alone, exactly when no class of the list is supported.
C2_IterYieldsSupportedOrNotFound ==
    /\ \A k \in 1..Len(it.yielded) :
          \/ it.yielded[k] \in supported
          \/ it.yielded[k] = "ScraperNotFound" /\ Len(it.yielded) = 1
                /\ supported = {}
    /\ it.pc = "done" =>
          it.yielded = IF supported = {} THEN <<"ScraperNotFound">>
                       ELSE SelectSeq(scrapers, IsSupportedClass)

C2_Witness ==
    /\ it.pc = "done"
    /\ supported = {"GhostscriptScraper", "MagicScraper"}
    /\ it.yielded = <<"GhostscriptScraper", "MagicScraper">>

----------------------------------------------------------------------------
(* Properties of the dummy scrapers, checked under SpecAdapter.            *)

\* C3: the well_formed of a ScraperNotFound object is False before and
\* after scrape_file(), with and without the well-formedness check; after
\* scrape_file() it has an error and its streams are one dummy stream per
\* call.
C3_ScraperNotFoundIsNeverWellFormed ==
    adapter.class = "ScraperNotFound" =>
        /\ well_formed_of(adapter) = "False"
        /\ Len(adapter.streams) >= 1 =>
              /\ Len(adapter.errors) >= 1
              /\ \A k \in 1..Len(adapter.streams) :
                    adapter.streams[k].class = "DummyMeta"
        /\ Len(adapter.errors) = Len(adapter.streams)

C3_Witness ==
    /\ adapter.class = "ScraperNotFound"
    /\ ~adapter.check_wellformed
    /\ Len(adapter.streams) = 1
    /\ Len(adapter.errors) = 1
    /\ well_formed_of(adapter) = "False"

----------------------------------------------------------------------------
(* Properties of the Scraper facade, checked under Spec.                   *)

\* C1: after scrape() the well_formed of the file is False when a scraper
\* object that ran reported False, otherwise True when one reported True,
\* otherwise None.
C1_AggregateWellFormed ==
    scraped =>
        well_formed =
            IF \E k \in 1..Len(verdicts) : verdicts[k] = "False" THEN "False"
            ELSE IF \E k \in 1..Len(verdicts) : verdicts[k] = "True" THEN "True"
            ELSE "None"

C1_Witness ==
    /\ scraped
    /\ Len(verdicts) = 4
    /\ verdicts[1] = "None"
    /\ verdicts[2] = "False"
    /\ verdicts[3] = "True"
    /\ verdicts[4] = "True"
    /\ well_formed = "False"

\* C9: grade() on a scraped file lets the container grader grade when it
\* supports the mimetype, else the text grader, else the MIME grader, and
\* returns UNACCEPTABLE when none supports it; a mimetype of the container
\* tables that is also in the MIME table goes to the container grader.
C9_GraderSelection ==
    (grade # NotGraded /\ DOMAIN streams # {}) =>
        LET container == mimetype \in DOMAIN recommended_formats
                                        \cup DOMAIN acceptable_formats
            text == mimetype \in DOMAIN TextGrader_formats
            mime == mimetype \in DOMAIN MIMEGrader_formats
        IN  /\ container =>
                  /\ grader = "ContainerGrader"
                  /\ grade = ContainerGrader_grade(scraper_of_state)
            /\ (~container /\ text) =>
                  /\ grader = "TextGrader"
                  /\ grade = TextGrader_grade(scraper_of_state)
            /\ (~container /\ ~text /\ mime) =>
                  /\ grader = "MIMEGrader"
                  /\ grade = MIMEGrader_grade(scraper_of_state)
            /\ (~container /\ ~text /\ ~mime) =>
                  /\ grader = NotGraded
                  /\ grade = UNACCEPTABLE
            /\ mimetype \in {"video/mp4", "video/dv", "video/x-matroska"} =>
                  grader = "ContainerGrader"

C9_Witness ==
    /\ scraped
    /\ mimetype = "video/dv"
    /\ version = UNAP
    /\ grader = "ContainerGrader"
    /\ grade = RECOMMENDED
    /\ MIMEGrader_grade(scraper_of_state) = ACCEPTABLE

\* C10: as long as scrape() has not been called on a Scraper, grade()
\* returns "(:unav)" and uses no grader, whatever file the Scraper names.
C10_GradeBeforeScrapeIsUnav ==
    ~scraped => (grade \in {NotGraded, "(:unav)"} /\ grader = NotGraded)

C10_Witness ==
    /\ ~scraped
    /\ grade = "(:unav)"
    /\ filename \in ExistingFiles
    /\ Len(info) > 0


\* the return value of grade() in the current state
grade_now == Scraper_grade(Self).grade

\* C11: right after scrape() has completed, grade() returns "(:unav)" only
\* when the Scraper has no file or the file does not exist; for every
\* existing file, the empty one included, it returns RECOMMENDED,
\* ACCEPTABLE or UNACCEPTABLE.
C11_GradeAfterScrape ==
    [][(~scraped /\ scraped') =>
          /\ (grade_now' = UNAV) => ~os_path_isfile(filename')
          /\ os_path_isfile(filename') => grade_now' \in Grades]_vars

\* scrape() has run to its end on an existing file and nothing was called
\* on the Scraper since, except grade()
MimeRan == Len(info) > 0 /\ info[Len(info)].class = "MimeScraper"

C11_Witness ==
    /\ MimeRan
    /\ filename = "tests/data/text_plain/invalid__empty.txt"
    /\ mimetype = UNAV
    /\ grade = UNACCEPTABLE

\* C12: detect_filetype() after scrape() leaves the Scraper in the state
\* that detect_filetype() gives on a fresh Scraper of the same request:
\* the same predefined mimetype and version, well_formed None for an
\* existing file and False for a missing one, no streams, info not empty;
\* nothing of the earlier scrape is left.
C12_DetectAfterScrapeIsFresh ==
    [][(scraped /\ DetectFiletype) =>
          /\ Self' = Scraper_detect_filetype(
                         new_Scraper(filename, detected, params))
          /\ DOMAIN streams' = {}
          /\ mimetype' = None
          /\ verdicts' = <<FileExists_well_formed(
                 FileExists_scrape_file(
                     new_scraper("FileExists", filename, None, None, TRUE,
                                 [mimetype |-> UNAV])))>>
          /\ \A k \in 1..Len(info') :
                info'[k].class \in {"FileExists", "FidoDetector", "MagicDetector"}
          /\ Len(info') > 0
          /\ well_formed' = IF os_path_isfile(filename) THEN None ELSE False]_vars

C12_Witness ==
    /\ scraped
    /\ os_path_isfile(filename)
    /\ well_formed = None
    /\ DOMAIN streams = {}
    /\ Len(info) = 3
    /\ params.mimetype = None
    /\ predefined_mimetype = "image/png"
    /\ predefined_version = "1.0"

\* the errors of the MimeScraper object that scrape() ran last
mime_errors ==
    {info[Len(info)].errors[k] : k \in 1..Len(info[Len(info)].errors)}

\* C13 as stated: after scrape() of an existing file, a mimetype (or
\* version) given by the caller that differs from the resulting one leaves
\* a mismatch error and well_formed False.
C13_AnyDifferenceIsAMismatch ==
    (MimeRan /\ os_path_isfile(filename)) =>
        /\ (params.mimetype # None /\ mimetype # params.mimetype) =>
              /\ well_formed = False
              /\ <<"Predefined mimetype '{}' and resulted mimetype '{}' mismatch.",
                   params.mimetype, mimetype>> \in mime_errors
        /\ (params.version # None /\ version # params.version) =>
              /\ well_formed = False
              /\ <<"Predefined version '{}' and resulted version '{}' mismatch.",
                   params.version, version>> \in mime_errors

\* C13, amended: a differing mimetype leaves well_formed False and a
\* mismatch error, or the error "File format is not supported." when the
\* resulting mimetype is "(:unav)", unless the caller gave application/gzip
\* and the result is application/warc or application/x-internet-archive,
\* which is no mismatch; a differing version always leaves well_formed
\* False and a mismatch error.  This holds even when every scraper of the
\* list that ran reported True.
C13_MismatchForcesNotWellFormed ==
    (MimeRan /\ os_path_isfile(filename)) =>
        /\ (/\ params.mimetype # None
            /\ mimetype # params.mimetype
            /\ ~(/\ params.mimetype = "application/gzip"
                 /\ mimetype \in {"application/warc",
                                  "application/x-internet-archive"})) =>
              /\ well_formed = False
              /\ IF mimetype = UNAV
                 THEN <<"File format is not supported.">> \in mime_errors
                 ELSE <<"Predefined mimetype '{}' and resulted mimetype '{}' mismatch.",
                        params.mimetype, mimetype>> \in mime_errors
        /\ (params.version # None /\ version # params.version) =>
              /\ well_formed = False
              /\ <<"Predefined version '{}' and resulted version '{}' mismatch.",
                   params.version, version>> \in mime_errors

C13_Witness ==
    /\ MimeRan
    /\ params.mimetype = "video/mpeg"
    /\ mimetype = "video/mp4"
    /\ Len(verdicts) = 4
    /\ verdicts[2] = True
    /\ verdicts[3] = True
    /\ verdicts[4] = False
    /\ well_formed = False
    /\ <<"Predefined mimetype '{}' and resulted mimetype '{}' mismatch.",
         "video/mpeg", "video/mp4">> \in mime_errors

\* C14: once detect_filetype() has run, the predefined mimetype is the one
\* the caller gave whenever the caller gave one, also when the detectors
\* found another; the same holds for the version; a detected value stands
\* only in a field the caller left unset (a caller's application/pdf
\* without version gets the detected version of the pdf); with nothing
\* given both fields are what the detectors found.
C14_PredefinedTakesPrecedence ==
    Len(info) > 0 =>
        /\ params.mimetype # None => predefined_mimetype = params.mimetype
        /\ params.version # None => predefined_version = params.version
        /\ predefined_mimetype \in {params.mimetype, detected.mimetype}
        /\ predefined_version \in {params.version, detected.version}
        /\ params.mimetype = None => predefined_mimetype = detected.mimetype
        /\ (/\ params.version = None
            /\ params.mimetype \in {None, detected.mimetype}) =>
              predefined_version = detected.version

C14_Witness ==
    /\ ~scraped
    /\ Len(info) = 3
    /\ params = [mimetype |-> "application/pdf", version |-> None]
    /\ detected = [mimetype |-> "application/pdf", version |-> "A-1a"]
    /\ predefined_mimetype = "application/pdf"
    /\ predefined_version = "A-1a"

\* C15: when the Scraper has no file name, or names a file that does not
\* exist, scrape() ends with well_formed False and one entry in info, of
\* class FileExists, holding the error; no detector and no scraper of the
\* list has run, whatever mimetype the caller gave.
C15_AbsentFileRunsOnlyFileExists ==
    (scraped /\ ~os_path_isfile(filename)) =>
        /\ well_formed = False
        /\ Len(info) = 1
        /\ info[1].class = "FileExists"
        /\ info[1].errors =
              IF filename = None THEN <<(<<"No filename given.">>)>>
              ELSE <<(<<"File {} does not exist.", filename>>)>>
        /\ verdicts = <<False>>
        /\ DOMAIN streams = {}

C15_Witness ==
    /\ scraped
    /\ filename = None
    /\ params.mimetype = "application/pdf"
    /\ well_formed = False
    /\ Len(info) = 1
    /\ info[1].class = "FileExists"

----------------------------------------------------------------------------
(* Properties of is_supported, checked under SpecSupport.                  *)

\* C16: a scraper class that declares _only_wellformed = True does not
\* support any mimetype and version when the well-formedness check is off,
\* so iter_scrapers does not yield it then.
C16_OnlyWellformedNeedsCheck ==
    ~request.check_wellformed =>
        \A c \in {"OfficeScraper", "PngcheckScraper", "VnuScraper",
                  "GhostscriptScraper", "GzipWarctoolsScraper",
                  "WarcWarctoolsScraper", "ArcWarctoolsScraper",
                  "PsppScraper", "DpxScraper", "DbptkScraper"} :
            /\ ~BaseScraper_is_supported(c, request)
            /\ c \notin supported
            /\ \A k \in 1..Len(it.yielded) : it.yielded[k] # c

C16_Witness ==
    /\ ~request.check_wellformed
    /\ request.mimetype = "application/gzip"
    /\ request.version = ""
    /\ request.md_answers = {"PsppScraper"}
    /\ it.pc = "done"
    /\ it.yielded = <<"ScraperNotFound">>

\* C17: with the well-formedness check on, a scraper class supports a
\* mimetype and version exactly when one of its metadata classes declares
\* the mimetype and either lists the version, or allows any version, or
\* the version is None, "(:unav)" or "(:unap)".  So a mimetype that is not
\* declared is not supported with any version, a made-up version is
\* supported by Office, Pngcheck and the Warctools classes and not by Vnu,
\* and the version None is supported by all of them.
C17_SupportRule ==
    request.check_wellformed =>
        LET m == request.mimetype
            v == request.version
            declared(c) == \E k \in 1..Len(supported_metadata[c]) :
                              m \in DOMAIN supported_metadata[c][k].supported
            listed(c) == \E k \in 1..Len(supported_metadata[c]) :
                            /\ m \in DOMAIN supported_metadata[c][k].supported
                            /\ v \in supported_metadata[c][k].supported[m]
            any_version == {"OfficeScraper", "PngcheckScraper",
                            "GzipWarctoolsScraper", "WarcWarctoolsScraper",
                            "ArcWarctoolsScraper"}
        IN  \A c \in DOMAIN supported_metadata :
               /\ (c \in supported) <=>
                     (/\ declared(c)
                      /\ \/ listed(c)
                         \/ c \in any_version
                         \/ v \in {None, UNAV, UNAP})
               /\ ~declared(c) => c \notin supported
               /\ (declared(c) /\ v = "foo") =>
                     (c \in supported <=> c # "VnuScraper")
               /\ (declared(c) /\ v = None) => c \in supported
               /\ it.pc = "done" =>
                     (c \in supported <=>
                         \E k \in 1..Len(it.yielded) : it.yielded[k] = c)

C17_Witness ==
    /\ request.check_wellformed
    /\ request.mimetype = "text/html"
    /\ request.version = "foo"
    /\ request.md_answers = {}
    /\ "VnuScraper" \notin supported
    /\ it.pc = "done"
    /\ it.yielded = <<"ScraperNotFound">>

----------------------------------------------------------------------------
(* Properties of the scrapers that run a tool, checked under SpecTool.     *)

\* the outputs of GsStdouts that hold "**** error" or "**** warning" in
\* some capitalization
GsMarkedStdouts ==
    {<<"*", "*", "*", "*", " ", "E", "r", "r", "o", "r", ":", " ", "x">>,
     <<" ", " ", "*", "*", "*", "*", " ", "W", "A", "R", "N", "I", "N", "G">>, <<"*", "*", "*", "*", " ", "e", "R", "R", "o", "R">>}

gs_ran == adapter.class = "GhostscriptScraper" /\ adapter.outcome = "returned"

\* C18: after GhostscriptScraper.scrape_file(), well_formed is False when a
\* collected message holds "**** error" or "**** warning" in any
\* capitalization, whatever the exit status, stderr and the error list;
\* when no message holds a marker it is the default verdict.
C18_GhostscriptMarkersFailWellFormed ==
    gs_ran =>
        IF \E k \in 1..Len(adapter.messages) :
               adapter.messages[k] \in GsMarkedStdouts
        THEN GhostscriptScraper_well_formed(adapter) = False
        ELSE GhostscriptScraper_well_formed(adapter)
                 = BaseScraper_well_formed(adapter)

\* gs exited with 0 and wrote nothing to stderr, no error was recorded, and
\* the stdout message holds a marker in capitals
C18_Witness ==
    /\ gs_ran
    /\ adapter.check_wellformed
    /\ adapter.errors = << >>
    /\ adapter.messages = << <<" ", " ", "*", "*", "*", "*", " ", "W", "A", "R", "N", "I", "N", "G">>,
                            <<"Well-Formed and valid">> >>
    /\ BaseScraper_well_formed(adapter) = True
    /\ GhostscriptScraper_well_formed(adapter) = False

tool_ran == adapter.outcome = "returned"

\* C19 (as stated): after scrape_file() has returned, on whatever exit
\* path, the stream list of the scraper holds at least one stream.
C19_ExecutedAdapterHasAStream ==
    tool_ran => Len(adapter.streams) >= 1

\* C19 (amended): after scrape_file() has returned, the stream list holds
\* at least one stream, or the scraper has recorded an error or the message
\* that it was skipped.
C19_NoStreamOnlyWithErrorOrSkip ==
    tool_ran =>
        \/ Len(adapter.streams) >= 1
        \/ Len(adapter.errors) >= 1
        \/ adapter.messages =
               << <<"Skipping scraper: Well-formed check not used.">> >>

\* WarcWarctoolsScraper has returned from an empty file: no stream, one
\* error
C19_Witness ==
    /\ tool_ran
    /\ adapter.class = "WarcWarctoolsScraper"
    /\ os_path_getsize(adapter.filename) = 0
    /\ adapter.streams = << >>
    /\ adapter.errors = << <<"Empty file.">> >>

\* the well_formed property of the scraper at hand
tool_well_formed ==
    IF adapter.class = "GhostscriptScraper"
    THEN GhostscriptScraper_well_formed(adapter)
    ELSE BaseScraper_well_formed(adapter)

\* C20: scrape_file() of a scraper that only checks well-formedness, on an
\* existing file of size zero with check_wellformed set, returns with a
\* non-empty error list and well_formed False; the Warctools scrapers have
\* recorded "Empty file." and have run no tool.
C20_EmptyFileFailsOnlyWellformed ==
    (/\ tool_ran
     /\ adapter.class \in only_wellformed
     /\ adapter.check_wellformed
     /\ os_path_getsize(adapter.filename) = 0)
    => /\ Len(adapter.errors) >= 1
       /\ tool_well_formed = False
       /\ adapter.class \in {"GzipWarctoolsScraper", "WarcWarctoolsScraper",
                              "ArcWarctoolsScraper"}
             => /\ \E k \in 1..Len(adapter.errors) :
                       adapter.errors[k] = <<"Empty file.">>
                /\ adapter.tool_runs = << >>

\* the scraper at hand and the scrapers it has run itself
scrapers_run ==
    {adapter} \cup {adapter.attempts[k] : k \in 1..Len(adapter.attempts)}

\* C21: when scrape_file() is over, returned or raised, the scratch
\* directory PsppScraper made and the temporary file ArcWarctoolsScraper
\* made are gone.
C21_TemporariesAreGoneAtExit ==
    adapter.outcome # "not called" =>
        \A a \in scrapers_run :
            a.class \in {"PsppScraper", "ArcWarctoolsScraper"} => a.temp = {}

\* PsppScraper made its directory and the start of pspp-convert raised
C21_Witness ==
    /\ adapter.class = "PsppScraper"
    /\ adapter.outcome = "OSError"
    /\ adapter.temp_made = <<"temp_dir">>
    /\ adapter.temp = {}

WarctoolsClasses ==
    {"GzipWarctoolsScraper", "WarcWarctoolsScraper", "ArcWarctoolsScraper"}

\* C22: a Gzip, Warc or Arc Warctools scraper run with check_wellformed
\* False records the "Skipping scraper" message and nothing else: no tool
\* run, no inner scraper, no error, no stream; its well_formed is None.
C22_WarctoolsSkipWithoutCheck ==
    (tool_ran /\ adapter.class \in WarctoolsClasses
              /\ ~adapter.check_wellformed)
    => /\ adapter.messages =
             << <<"Skipping scraper: Well-formed check not used.">> >>
       /\ adapter.tool_runs = << >>
       /\ adapter.attempts = << >>
       /\ adapter.errors = << >>
       /\ adapter.streams = << >>
       /\ BaseScraper_well_formed(adapter) = None

\* GzipWarctoolsScraper has been run without the check on a file that is
\* not empty
C22_Witness ==
    /\ tool_ran
    /\ adapter.class = "GzipWarctoolsScraper"
    /\ ~adapter.check_wellformed
    /\ os_path_getsize(adapter.filename) > 0
    /\ Len(adapter.messages) = 1
    /\ BaseScraper_well_formed(adapter) = None

\* C23: whatever the library call does on an existing file (open or parse
\* raising, reading the frame count raising), scrape_file() of PilScraper
\* and of MediainfoScraper returns; when the open or the parse has raised,
\* the failure is in the error list and, the check being asked for,
\* well_formed is False.
C23_LibraryFailuresAreData ==
    (adapter.class \in {"PilScraper", "MediainfoScraper"}
        /\ adapter.outcome # "not called")
    => /\ adapter.outcome = "returned"
       /\ adapter.library \in {"open raised", "parse raised"}
             => /\ Len(adapter.errors) >= 1
                /\ adapter.check_wellformed
                      => BaseScraper_well_formed(adapter) = False

----------------------------------------------------------------------------
(* Properties of the XML support checks, checked under SpecSupport.        *)

\* C24: with the key "schematron" in params, XmlFileMagicMeta.is_supported
\* and XmlEncoding.is_supported are False for every mimetype and version;
\* without the key they are what the inherited is_supported gives.
C24_SchematronTurnsXmlSupportOff ==
    LET m == request.mimetype
        v == request.version
        cw == request.check_wellformed
        given == request.params
    IN  IF ~given.is_none /\ "schematron" \in given.keys
        THEN /\ ~XmlFileMagicMeta_is_supported(m, v, given)
             /\ ~XmlEncoding_is_supported(m, v, cw, given)
        ELSE /\ XmlFileMagicMeta_is_supported(m, v, given)
                  = BaseMeta_is_supported(XmlFileMagicMeta, m, v)
             /\ XmlEncoding_is_supported(m, v, cw, given)
                  = XmlEncoding_super_is_supported(m, v, cw)

\* a request for text/xml 1.0 with a schematron parameter, which both
\* inherited rules would accept; iter_scrapers has gone through its list
C24_Witness ==
    /\ request.mimetype = "text/xml"
    /\ request.version = "1.0"
    /\ request.check_wellformed
    /\ request.params = dict_params({"schematron"})
    /\ BaseMeta_is_supported(XmlFileMagicMeta, "text/xml", "1.0")
    /\ XmlEncoding_super_is_supported("text/xml", "1.0", TRUE)
    /\ ~XmlFileMagicMeta_is_supported("text/xml", "1.0", request.params)
    /\ it.pc = "done"

----------------------------------------------------------------------------
(* Properties of GzipWarctoolsScraper, checked under SpecTool.  The field  *)
(* `attempts` of the scraper holds the inner scrapers it has run, as they  *)
(* were after their scrape_file().                                         *)

gzip_ran ==
    /\ tool_ran
    /\ adapter.class = "GzipWarctoolsScraper"
    /\ adapter.check_wellformed

attempt_ok(k) == BaseScraper_well_formed(adapter.attempts[k]) = True

\* C25: GzipWarctoolsScraper.scrape_file with the check tries
\* WarcWarctoolsScraper first; it tries ArcWarctoolsScraper second exactly
\* when the Warc attempt was not well-formed; nothing follows a well-formed
\* attempt; it has a stream exactly when an attempt was well-formed, and
\* then one GzipWarctoolsMeta around the streams of that attempt.
C25_GzipTriesWarcThenArc ==
    gzip_ran =>
        LET n == Len(adapter.attempts) IN
        /\ n \in {1, 2}
        /\ adapter.attempts[1].class = "WarcWarctoolsScraper"
        /\ n = 2 <=> ~attempt_ok(1)
        /\ n = 2 => adapter.attempts[2].class = "ArcWarctoolsScraper"
        /\ Len(adapter.streams) >= 1 <=> attempt_ok(n)
        /\ attempt_ok(n) =>
               /\ Len(adapter.streams) = 1
               /\ adapter.streams[1].class = "GzipWarctoolsMeta"
               /\ adapter.streams[1].mimetype
                      = adapter.attempts[n].streams[1].mimetype
               /\ adapter.streams[1].version
                      = adapter.attempts[n].streams[1].version

\* the Warc attempt failed with the tool and the Arc attempt went well
C25_Witness ==
    /\ gzip_ran
    /\ Len(adapter.attempts) = 2
    /\ ~attempt_ok(1)
    /\ adapter.attempts[1].tool_runs = <<"warcvalid">>
    /\ attempt_ok(2)
    /\ Len(adapter.streams) = 1
    /\ adapter.streams[1].mimetype = "application/x-internet-archive"

\* C26: when an attempt of GzipWarctoolsScraper is well-formed, the
\* messages and errors of the scraper are those of that attempt, so the
\* scraper is well-formed whatever an earlier Warc attempt recorded; when
\* both attempts fail, its errors are those of the Warc attempt followed
\* by those of the Arc attempt.
C26_GzipKeepsTheSuccessfulAttempt ==
    gzip_ran =>
        LET n == Len(adapter.attempts) IN
        /\ attempt_ok(n) =>
               /\ adapter.messages = adapter.attempts[n].messages
               /\ adapter.errors = adapter.attempts[n].errors
               /\ BaseScraper_well_formed(adapter) = True
        /\ ~attempt_ok(n) =>
               /\ n = 2
               /\ adapter.errors = adapter.attempts[1].errors
                                       \o adapter.attempts[2].errors

\* the Warc attempt left errors and the Arc attempt went well: none of the
\* errors is left
C26_Witness ==
    /\ gzip_ran
    /\ Len(adapter.attempts) = 2
    /\ Len(adapter.attempts[1].errors) >= 2
    /\ attempt_ok(2)
    /\ adapter.errors = << >>
    /\ Len(adapter.messages) = 2

----------------------------------------------------------------------------
(* Further properties of the scrapers that run a tool, under SpecTool.     *)

\* the errors _check_supported() records; every other error of
\* GhostscriptScraper comes from the run of gs
check_supported_errors ==
    {"MIME type not supported by this scraper.",
     "MIME type {} with version {} is not supported."}

\* C27: after GhostscriptScraper.scrape_file() the message "Well-Formed
\* and valid" is there only if the run of gs has logged no error, neither
\* for a return code other than 0 nor for output on stderr.
C27_ValidMessageOnlyWithoutToolError ==
    (gs_ran /\ \E k \in 1..Len(adapter.messages) :
                   adapter.messages[k] = <<"Well-Formed and valid">>)
    => \A k \in 1..Len(adapter.errors) :
           adapter.errors[k][1] \in check_supported_errors

\* C28: after a WarcWarctoolsScraper.scrape_file() that went well
\* (warcvalid exited with 0, the first line was read) the stream list holds
\* one stream for each supported metadata class: one WarcWarctoolsMeta and
\* nothing twice.
C28_WarcHasOneStream ==
    (/\ tool_ran
     /\ adapter.class = "WarcWarctoolsScraper"
     /\ adapter.tool_runs = <<"warcvalid">>
     /\ adapter.errors = << >>
     /\ \E k \in 1..Len(adapter.messages) :
            adapter.messages[k] = <<"File was analyzed successfully.">>)
    => /\ Len(adapter.streams) = Len(WarcWarctoolsScraper_supported_metadata)
       /\ adapter.streams[1].class = "WarcWarctoolsMeta"
       /\ \A j, k \in 1..Len(adapter.streams) :
              adapter.streams[j] = adapter.streams[k] => j = k

----------------------------------------------------------------------------
(* The container grader against the MIME table.                            *)

\* a grade as a number: the better the grade, the higher
grade_rank(g) ==
    IF g = RECOMMENDED THEN 2 ELSE IF g = ACCEPTABLE THEN 1 ELSE 0

\* C29: the grade ContainerGrader returns for a container is never better
\* than the grade the MIME table gives to the mimetype and version of the
\* container stream: a container the table lists as ACCEPTABLE is never
\* graded RECOMMENDED, and a container version the table does not list is
\* never graded above UNACCEPTABLE.
C29_ContainerGradeWithinMimeTable ==
    (/\ grader = "ContainerGrader"
     /\ 0 \in DOMAIN streams
     /\ ContainerGrader_is_supported(streams[0].mimetype))
    => grade_rank(grade)
           <= grade_rank(MIMEGrader_grade(
                             [mimetype |-> streams[0].mimetype,
                              version |-> streams[0].version,
                              streams |-> streams]))

----------------------------------------------------------------------------
(* The verdict of FileExists.                                              *)

\* the filename of the scraper is empty, None or names no existing file
no_such_file(a) ==
    \/ a.filename = None
    \/ a.filename = ""
    \/ ~os_path_isfile(a.filename)

\* C30: the verdict of FileExists is never True.  After each call of
\* scrape_file() well_formed is False exactly when the filename is empty,
\* None or names no existing file, and then the call has recorded one error
\* and there is no message; otherwise well_formed is None, the call has
\* recorded one message and there is no error.  Each call appends one dummy
\* stream.
C30_FileExistsVerdict ==
    [][(adapter.class = "FileExists" /\ adapter' # adapter) =>
         LET calls == Len(adapter.streams) + 1
             verdict == FileExists_well_formed(adapter')
         IN  /\ verdict # True
             /\ verdict = False <=> no_such_file(adapter)
             /\ verdict = None <=> ~no_such_file(adapter)
             /\ no_such_file(adapter) =>
                    /\ Len(adapter'.errors) = calls
                    /\ adapter'.messages = << >>
             /\ ~no_such_file(adapter) =>
                    /\ Len(adapter'.messages) = calls
                    /\ adapter'.errors = << >>
             /\ adapter'.streams = Append(adapter.streams, DummyMeta)
             /\ adapter'.filename = adapter.filename]_vars

C30_Witness ==
    /\ adapter.class = "FileExists"
    /\ adapter.filename = "missing_file"
    /\ adapter.streams = <<DummyMeta>>
    /\ Len(adapter.errors) = 1
    /\ adapter.errors[1] = <<"File {} does not exist.", "missing_file">>
    /\ adapter.messages = << >>
    /\ FileExists_well_formed(adapter) = False

====
